---- MODULE Spec2Model ----
(***************************************************************************)
(* A model of fuzzyLib: the algebras (Goedel, Lukasiewicz) with their      *)
(* dimension validation, the Term expression evaluator, Clause with its    *)
(* precomputed values table over a discretized Domain, and the interval    *)
(* type-2 fuzzy set.                                                       *)
(*                                                                         *)
(* Numbers.  Membership degrees are the grid points k/Scale of [0,1],      *)
(* held as the integer k (so 1 is Scale and 1 - a is Scale - a); the       *)
(* arithmetic of the operators is exact on this grid.  Domain values are   *)
(* integers too (ticks), see the Clause section.                           *)
(***************************************************************************)
EXTENDS Integers, Sequences, FiniteSets, TLC

\* ----------------------------------------------------------------- bounds
\* resolution of the degree grid: the degrees are 0/Scale .. Scale/Scale
Scale == 4
\* longest sequence operand handed to an algebra operator or a fuzzy set
MaxLen == 2
\* number of calls (constructions, combinations, evaluations) of one run
\* of the Term driver
MaxOps == 4
\* largest number a Domain reaches, and largest precision of a Domain, in
\* units of 1/Scale
MaxX == 4
MaxPrecision == 3
\* largest number of rows of an array handed to the values setter
MaxRows == 3
\* largest count asked of a membership-function generator
MaxN == 5

VARIABLES
    \* algebra driver: the operands at hand and the last operator call
    a, b, c, call,
    \* Term driver: the Term objects created so far (a Term is named by its
    \* position), the last evaluation of a firing function, the number of
    \* calls made, and for every Term the expression it was built as
    terms, lastFire, nops, built,
    \* fuzzy set driver: the fuzzy set constructed and its last call
    fset, fcall,
    \* Clause driver: the Clause constructed, its last get_value, and the
    \* number of calls of its fuzzy set so far
    clauseObj, got, fsCalls,
    \* the last call of a setter of the Clause: which, its outcome, and the
    \* array handed to the values setter
    setOut,
    \* MamdaniConsequent driver: the consequent and the last call of output
    consequent, output,
    \* constructor driver: the last construction, its arguments and the
    \* exception it raised
    made,
    \* generator driver: the last generator call, its arguments and what it
    \* returned
    generated,
    \* membership-function driver: the last callable built, the value it was
    \* called with and what it returned
    shaped,
    \* grouping driver: the last call of a grouping function, its arguments
    \* and its outcome
    grouped

algebraVars == <<a, b, c, call>>
termVars == <<terms, lastFire, nops, built>>
fuzzyVars == <<fset, fcall>>
clauseVars == <<clauseObj, got, fsCalls, setOut>>
mamdaniVars == <<consequent, output>>
constructVars == <<made>>
generatorVars == <<generated>>
shapeVars == <<shaped>>
groupVars == <<grouped>>
vars == <<a, b, c, call, terms, lastFire, nops, built, fset, fcall,
          clauseObj, got, fsCalls, setOut, consequent, output, made, generated,
          shaped, grouped>>

\* ------------------------------------------------------------- arithmetic
Min(x, y) == IF x <= y THEN x ELSE y
Max(x, y) == IF x >= y THEN x ELSE y

Degrees == 0..Scale

\* ---------------------------------------------------------------- operands
\* An operand of an operator is a Python scalar or an iterable (list, tuple,
\* 1-D array).  Both carry their numbers in v; iter tells them apart.
Scalar(k) == [iter |-> FALSE, v |-> <<k>>]
Array(s) == [iter |-> TRUE, v |-> s]

SeqsUpTo(S, n) == UNION {[1..k -> S] : k \in 1..n}

Scalars == {Scalar(k) : k \in Degrees}
Arrays == {Array(s) : s \in SeqsUpTo(Degrees, MaxLen)}
Operands == Scalars \cup Arrays

\* What a call came to: the value returned, or the exception raised with
\* the numbers its message names.  ran tells whether the wrapped operator
\* body was evaluated.
Returned(val) == [exc |-> "None", msg |-> <<>>, val |-> val, ran |-> TRUE]
Raised(exc, msg, ran) == [exc |-> exc, msg |-> msg, val |-> Scalar(0), ran |-> ran]

\* ------------------------------------------------------- numpy elementwise
\* numpy broadcasting of two operands of at most one dimension
Broadcastable(x, y) == Len(x.v) = Len(y.v) \/ Len(x.v) = 1 \/ Len(y.v) = 1
BroadcastLen(x, y) == IF Len(x.v) = 1 THEN Len(y.v) ELSE Len(x.v)
At(x, i) == IF Len(x.v) = 1 THEN x.v[1] ELSE x.v[i]
BroadcastError(x, y) == Raised("ValueError", <<Len(x.v), Len(y.v)>>, TRUE)

np_minimum(x, y) ==
    IF ~Broadcastable(x, y) THEN BroadcastError(x, y)
    ELSE Returned([iter |-> x.iter \/ y.iter,
                   v |-> [i \in 1..BroadcastLen(x, y) |-> Min(At(x, i), At(y, i))]])

np_maximum(x, y) ==
    IF ~Broadcastable(x, y) THEN BroadcastError(x, y)
    ELSE Returned([iter |-> x.iter \/ y.iter,
                   v |-> [i \in 1..BroadcastLen(x, y) |-> Max(At(x, i), At(y, i))]])

np_add(x, y) ==
    IF ~Broadcastable(x, y) THEN BroadcastError(x, y)
    ELSE Returned([iter |-> x.iter \/ y.iter,
                   v |-> [i \in 1..BroadcastLen(x, y) |-> At(x, i) + At(y, i)]])

\* 1 - x, elementwise
OneMinus(x) == [iter |-> x.iter, v |-> [i \in 1..Len(x.v) |-> Scale - x.v[i]]]
\* x - 1, elementwise
MinusOne(x) == [iter |-> x.iter, v |-> [i \in 1..Len(x.v) |-> x.v[i] - Scale]]

\* ---------------------------------------------------------- validate_input
\* size of an operand: the first dimension of an iterable, 1 for a scalar
Size(x) == IF x.iter THEN Len(x.v) ELSE 1

validate_input_mutant_broadcast(x, y) ==
    IF Size(x) # Size(y) /\ x.iter /\ y.iter
    THEN Raised("ValueError", <<Size(x), Size(y)>>, FALSE)
    ELSE Returned(Scalar(0))

validate_input_mutant_no_scalar_size(x, y) ==
    IF Size(x) # Size(y) /\ Len(x.v) # 1 /\ Len(y.v) # 1
    THEN Raised("ValueError", <<Size(x), Size(y)>>, FALSE)
    ELSE Returned(Scalar(0))

\* The check the decorator makes before it calls the wrapped operator: the
\* exception it raises, or Returned(..) when it lets the call through.
validate_input(x, y) ==
    IF Size(x) # Size(y)
    THEN Raised("ValueError", <<Size(x), Size(y)>>, FALSE)
    ELSE Returned(Scalar(0))

Passed(check) == check.exc = "None"

\* ------------------------------------------------------------ GodelAlgebra
GodelAlgebra_implication_mutant(x, y) ==
    IF Passed(validate_input(x, y)) THEN np_maximum(x, y) ELSE validate_input(x, y)

GodelAlgebra_implication(x, y) ==
    IF Passed(validate_input(x, y)) THEN np_maximum(OneMinus(x), y) ELSE validate_input(x, y)

GodelAlgebra_negation(x) == Returned(OneMinus(x))

GodelAlgebra_s_norm_mutant(x, y) ==
    IF Passed(validate_input(x, y)) THEN np_maximum(OneMinus(x), y) ELSE validate_input(x, y)

GodelAlgebra_s_norm(x, y) ==
    IF Passed(validate_input(x, y)) THEN np_maximum(x, y) ELSE validate_input(x, y)

GodelAlgebra_t_norm(x, y) ==
    IF Passed(validate_input(x, y)) THEN np_minimum(x, y) ELSE validate_input(x, y)

\* ------------------------------------------------------ LukasiewiczAlgebra
\* np.minimum(1., 1 - a + b)
LukasiewiczAlgebra_implication(x, y) ==
    IF ~Passed(validate_input(x, y)) THEN validate_input(x, y)
    ELSE IF ~Passed(np_add(OneMinus(x), y)) THEN np_add(OneMinus(x), y)
    ELSE np_minimum(Scalar(Scale), np_add(OneMinus(x), y).val)

LukasiewiczAlgebra_negation(x) == Returned(OneMinus(x))

LukasiewiczAlgebra_s_norm_mutant(x, y) ==
    IF ~Passed(validate_input(x, y)) THEN validate_input(x, y)
    ELSE np_add(x, y)

\* np.minimum(1., a + b)
LukasiewiczAlgebra_s_norm(x, y) ==
    IF ~Passed(validate_input(x, y)) THEN validate_input(x, y)
    ELSE IF ~Passed(np_add(x, y)) THEN np_add(x, y)
    ELSE np_minimum(Scalar(Scale), np_add(x, y).val)

LukasiewiczAlgebra_t_norm_mutant(x, y) ==
    IF ~Passed(validate_input(x, y)) THEN validate_input(x, y)
    ELSE IF ~Passed(np_add(x, y)) THEN np_add(x, y)
    ELSE Returned(MinusOne(np_add(x, y).val))

\* np.maximum(.0, a + b - 1.0)
LukasiewiczAlgebra_t_norm(x, y) ==
    IF ~Passed(validate_input(x, y)) THEN validate_input(x, y)
    ELSE IF ~Passed(np_add(x, y)) THEN np_add(x, y)
    ELSE np_maximum(Scalar(0), MinusOne(np_add(x, y).val))

Algebras == {"GodelAlgebra", "LukasiewiczAlgebra"}
BinaryOps == {"t_norm", "s_norm", "implication"}

t_norm(alg, x, y) ==
    IF alg = "GodelAlgebra" THEN GodelAlgebra_t_norm(x, y) ELSE LukasiewiczAlgebra_t_norm(x, y)
s_norm(alg, x, y) ==
    IF alg = "GodelAlgebra" THEN GodelAlgebra_s_norm(x, y) ELSE LukasiewiczAlgebra_s_norm(x, y)
implication(alg, x, y) ==
    IF alg = "GodelAlgebra" THEN GodelAlgebra_implication(x, y)
    ELSE LukasiewiczAlgebra_implication(x, y)
negation(alg, x) ==
    IF alg = "GodelAlgebra" THEN GodelAlgebra_negation(x) ELSE LukasiewiczAlgebra_negation(x)

\* -------------------------------------------------------------------- Term
\* The firing function of a Term is None or a functools.partial of a bound
\* method: dict_clause of the Term self with a clause, or apply_dict_t_norm
\* / apply_dict_s_norm of the Term self with the Term other.
NoFire == [kind |-> "None", self |-> 0, other |-> 0, clause |-> "None"]
partial_dict_clause(self, clause) ==
    [kind |-> "dict_clause", self |-> self, other |-> 0, clause |-> clause]
partial_apply_dict_t_norm(self, other) ==
    [kind |-> "apply_dict_t_norm", self |-> self, other |-> other, clause |-> "None"]
partial_apply_dict_s_norm(self, other) ==
    [kind |-> "apply_dict_s_norm", self |-> self, other |-> other, clause |-> "None"]

\* the Clause objects the leaves are made of; a Clause is a dictionary key
Clauses == {"C1", "C2"}
\* clause.linguistic_variable.name + '_' + clause.gradation_adjective
ClauseName(clause) == <<clause>>

\* the degrees the assignments are made of: the two ends of [0,1] and the
\* grid points next to them
SampleDegrees == {Scalar(k) : k \in {0, 1, Scale - 1, Scale}}
\* an assignment: a dict from the Clauses to their membership degrees
Assignments == [Clauses -> SampleDegrees]

TypeError == Raised("TypeError", <<>>, FALSE)
KeyError == Raised("KeyError", <<>>, FALSE)
RecursionError == Raised("RecursionError", <<>>, FALSE)

dict_clause_mutant(dict_, clause) ==
    IF "C1" \in DOMAIN dict_ THEN Returned(dict_["C1"]) ELSE KeyError

\* dict_[clause]
dict_clause(dict_, clause) ==
    IF clause \in DOMAIN dict_ THEN Returned(dict_[clause]) ELSE KeyError

\* Calling the firing function f on dict_, in the heap ts of Terms.  The
\* partial of apply_dict_t_norm / apply_dict_s_norm reads, when it is
\* called, the algebra and the firing function its self has then, and the
\* firing function its other has then; an exception of an operand
\* propagates, the left operand being evaluated first.  depth is the number
\* of frames left: a chain of calls longer than the number of Terms repeats
\* a Term and goes on until Python's recursion limit.
RECURSIVE call_fire_mutant(_, _, _, _)
call_fire_mutant(ts, f, dict_, depth) ==
    IF f.kind = "None" THEN TypeError
    ELSE IF f.kind = "dict_clause" THEN dict_clause(dict_, f.clause)
    ELSE IF depth = 0 THEN RecursionError
    ELSE LET left == call_fire_mutant(ts, ts[f.self].fire, dict_, depth - 1)
             right == call_fire_mutant(ts, ts[f.self].fire, dict_, depth - 1)
         IN  IF ~Passed(left) THEN left
             ELSE IF ~Passed(right) THEN right
             ELSE IF f.kind = "apply_dict_t_norm"
                  THEN t_norm(ts[f.self].algebra, left.val, right.val)
                  ELSE s_norm(ts[f.self].algebra, left.val, right.val)

RECURSIVE call_fire(_, _, _, _)
call_fire(ts, f, dict_, depth) ==
    IF f.kind = "None" THEN TypeError
    ELSE IF f.kind = "dict_clause" THEN dict_clause(dict_, f.clause)
    ELSE IF depth = 0 THEN RecursionError
    ELSE LET left == call_fire(ts, ts[f.self].fire, dict_, depth - 1)
             right == call_fire(ts, ts[f.other].fire, dict_, depth - 1)
         IN  IF ~Passed(left) THEN left
             ELSE IF ~Passed(right) THEN right
             ELSE IF f.kind = "apply_dict_t_norm"
                  THEN t_norm(ts[f.self].algebra, left.val, right.val)
                  ELSE s_norm(ts[f.self].algebra, left.val, right.val)

\* term.fire(dict_) for the Term at position t
fire(ts, t, dict_) == call_fire(ts, ts[t].fire, dict_, Len(ts))

\* The expression a Term was built as, recorded when it is created: a leaf
\* over a clause, or the & / | of the expressions of its two operands, with
\* the algebra the new Term was given.  parts are the Terms it was built
\* from, itself included.
Leaf(alg, clause) == [op |-> "leaf", alg |-> alg, clause |-> clause, kids |-> <<>>]
Node(op, alg, l, r) == [op |-> op, alg |-> alg, clause |-> "None", kids |-> <<l, r>>]


\* Term.__init__(algebra, clause) up to the assignment of the firing
\* function, which names the new object
Term_init(alg, clause) ==
    [algebra |-> alg,
     name |-> IF clause = "None" THEN <<>> ELSE ClauseName(clause),
     fire |-> NoFire]

TermIds == 1..Len(terms)

TermsIdle ==
    /\ terms = <<>>
    /\ lastFire = [term |-> 0, dict_ |-> <<>>, out |-> Returned(Scalar(0))]
    /\ nops = 0
    /\ built = <<>>


\* -------------------------------------------------------------- fuzzy sets
\* Numbers handed to a fuzzy set or held by a Domain are in units of
\* 1/Scale.  The membership functions are the caller's: x, 1, 1 - x.
MembershipFunctions == {"identity", "one", "complement"}
membership_function(f, x) ==
    CASE f = "identity" -> x
      [] f = "one" -> Scale
      [] f = "complement" -> Scale - x
\* what a caller may hand to a constructor: a function, or something that
\* is not callable
MembershipArguments == MembershipFunctions \cup {"not_callable"}
callable(f) == f \in MembershipFunctions

\* a value computed by a fuzzy set: rows of numbers (one row for type 1,
\* the lower and the upper row for interval type 2); iter tells that the
\* input was a sequence
FVal(iter, rows) == [iter |-> iter, rows |-> rows]
NoVal == FVal(FALSE, <<>>)
FReturned(val) == [exc |-> "None", val |-> val]
FRaised(exc) == [exc |-> exc, val |-> NoVal]

\* the numbers handed to fuzzy sets and to get_value
XValues == (0 - 1)..(MaxX + 1)
XScalars == {Scalar(k) : k \in XValues}
XArrays == {Array(s) : s \in SeqsUpTo(XValues, MaxLen)}
XInputs == XScalars \cup XArrays

\* np.vectorize(f)(x)
vectorize(f, x) == [i \in 1..Len(x.v) |-> membership_function(f, x.v[i])]

NoFuzzySet ==
    [exc |-> "NotConstructed", type |-> "None", membership_function |-> "None",
     lower_membership_function |-> "None", upper_membership_function |-> "None"]

\* Type1FuzzySet(membership_function)
Type1FuzzySet_init(mf) ==
    [exc |-> IF ~callable(mf) THEN "ValueError" ELSE "None",
     type |-> "Type1FuzzySet", membership_function |-> mf,
     lower_membership_function |-> "None", upper_membership_function |-> "None"]

\* IntervalType2FuzzySet(lower_membership_function, upper_membership_function)
IntervalType2FuzzySet_init(lmf, umf) ==
    [exc |-> IF ~callable(umf) \/ ~callable(lmf) THEN "ValueError" ELSE "None",
     type |-> "IntervalType2FuzzySet", membership_function |-> "None",
     lower_membership_function |-> lmf, upper_membership_function |-> umf]

\* Type1FuzzySet.__call__
Type1FuzzySet_call(fs, x) ==
    FReturned(FVal(x.iter, <<vectorize(fs.membership_function, x)>>))

IntervalType2FuzzySet_call_mutant(fs, x) ==
    LET lower_membership == vectorize(fs.lower_membership_function, x)
        upper_membership == vectorize(fs.upper_membership_function, x)
    IN  IF lower_membership[1] > upper_membership[1]
        THEN FRaised("ValueError")
        ELSE FReturned(FVal(x.iter, <<lower_membership, upper_membership>>))

\* IntervalType2FuzzySet.__call__
IntervalType2FuzzySet_call(fs, x) ==
    LET lower_membership == vectorize(fs.lower_membership_function, x)
        upper_membership == vectorize(fs.upper_membership_function, x)
    IN  IF \E i \in 1..Len(x.v) : lower_membership[i] > upper_membership[i]
        THEN FRaised("ValueError")
        ELSE FReturned(FVal(x.iter, <<lower_membership, upper_membership>>))

\* fuzzy_set(x)
FuzzySet_call(fs, x) ==
    IF fs.type = "Type1FuzzySet" THEN Type1FuzzySet_call(fs, x)
    ELSE IntervalType2FuzzySet_call(fs, x)

\* the fuzzy set objects there can be
FuzzySets ==
    {Type1FuzzySet_init(mf) : mf \in MembershipFunctions}
    \cup {IntervalType2FuzzySet_init(lmf, umf) :
             lmf \in MembershipFunctions, umf \in MembershipFunctions}

NoFuzzyCall == [x |-> Scalar(0), out |-> FRaised("NotCalled")]
FuzzyIdle == fset = NoFuzzySet /\ fcall = NoFuzzyCall

\* ------------------------------------------------- Domain, LinguisticVariable
Domain_init(min_value, max_value, precision) ==
    [type |-> "Domain", min |-> min_value, max |-> max_value, precision |-> precision]

\* an object that is not a Domain
NotADomain == [Domain_init(0, 0, 0) EXCEPT !.type = "float"]

\* the Domains of the runs: min < max and precision > 0
Domains ==
    {Domain_init(lo, hi, p) : lo \in 0..1, hi \in 1..MaxX, p \in 1..MaxPrecision}
    \ {Domain_init(lo, lo, p) : lo \in 0..1, p \in 1..MaxPrecision}

\* Domain.__call__: np.arange(min, max, precision), the points min + k *
\* precision below max
Domain_call(domain) ==
    LET n == (domain.max - domain.min + domain.precision - 1) \div domain.precision
    IN  Array([k \in 1..n |-> domain.min + (k - 1) * domain.precision])

\* LinguisticVariable(name, domain): the object, or the exception of the
\* type check
LinguisticVariable_init(name, domain) ==
    [exc |-> IF domain.type # "Domain" THEN "TypeError" ELSE "None",
     type |-> "LinguisticVariable", name |-> name, domain |-> domain]

\* an object that is not a LinguisticVariable
NotALinguisticVariable ==
    [LinguisticVariable_init("None", Domain_init(0, 0, 0)) EXCEPT !.type = "float"]

\* an object that is not a FuzzySet
NotAFuzzySet == [NoFuzzySet EXCEPT !.exc = "None", !.type = "float"]
isinstance_FuzzySet(x) == x.type \in {"Type1FuzzySet", "IntervalType2FuzzySet"}
isinstance_LinguisticVariable(x) == x.type = "LinguisticVariable"

\* ------------------------------------------------------------------ Clause
NoClause ==
    [exc |-> "NotConstructed",
     linguistic_variable |-> LinguisticVariable_init("None", Domain_init(0, 0, 0)),
     gradation_adjective |-> "None", fuzzy_set |-> NoFuzzySet, values |-> NoVal]

\* Clause._calculate_values
Clause_calculate_values(linguistic_variable, fuzzy_set) ==
    FuzzySet_call(fuzzy_set, Domain_call(linguistic_variable.domain))

\* Clause(linguistic_variable, gradation_adjective, fuzzy_set): the object,
\* or the exception of a type check or of the fuzzy set when the values are
\* calculated
Clause_init(linguistic_variable, gradation_adjective, fuzzy_set) ==
    LET values == Clause_calculate_values(linguistic_variable, fuzzy_set)
    IN  IF ~isinstance_LinguisticVariable(linguistic_variable)
        THEN [NoClause EXCEPT !.exc = "TypeError"]
        ELSE IF ~isinstance_FuzzySet(fuzzy_set)
        THEN [NoClause EXCEPT !.exc = "TypeError"]
        ELSE IF values.exc # "None" THEN [NoClause EXCEPT !.exc = values.exc]
        ELSE [exc |-> "None", linguistic_variable |-> linguistic_variable,
              gradation_adjective |-> gradation_adjective, fuzzy_set |-> fuzzy_set,
              values |-> values.val]

np_round_mutant(num, den) == num \div den

\* np.round(num / den): to the nearest integer, a tie to the even one
np_round(num, den) ==
    LET q == num \div den
        r == num % den
    IN  IF 2 * r < den THEN q
        ELSE IF 2 * r > den THEN q + 1
        ELSE IF q % 2 = 0 THEN q ELSE q + 1

\* Clause._find_index: the indices, or the exception of the range check
Clause_find_index(self, x) ==
    LET domain == self.linguistic_variable.domain
    IN  IF \E i \in 1..Len(x.v) : x.v[i] > domain.max \/ x.v[i] < domain.min
        THEN [exc |-> "ValueError", index |-> <<>>]
        ELSE [exc |-> "None",
              index |-> [i \in 1..Len(x.v) |-> np_round(x.v[i] - domain.min, domain.precision)]]

\* np.take(values, index, axis=-1): index k of the last axis, counted from
\* the end when negative; an index off the axis raises
np_take(values, iter, index) ==
    LET n == Len(values.rows[1])
        pos(k) == IF k >= 0 THEN k + 1 ELSE n + k + 1
    IN  IF \E i \in 1..Len(index) : index[i] >= n \/ index[i] < 0 - n
        THEN FRaised("IndexError")
        ELSE FReturned(FVal(iter,
                 [r \in 1..Len(values.rows) |->
                     [i \in 1..Len(index) |-> values.rows[r][pos(index[i])]]]))

Clause_get_value_mutant(self, x) ==
    [out |-> IF Clause_find_index(self, x).exc # "None"
             THEN FRaised(Clause_find_index(self, x).exc)
             ELSE FuzzySet_call(self.fuzzy_set, x),
     fuzzy_set_calls |-> 1]

\* Clause.get_value: what it returns or raises, and how many times it
\* called the fuzzy set
Clause_get_value(self, x) ==
    [out |-> IF Clause_find_index(self, x).exc # "None"
             THEN FRaised(Clause_find_index(self, x).exc)
             ELSE np_take(self.values, x.iter, Clause_find_index(self, x).index),
     fuzzy_set_calls |-> 0]


\* the first dimension of an array (len), and whether it has a second one;
\* a table of one row is a 1-D array
shape0(arr) == IF Len(arr.rows) = 1 THEN Len(arr.rows[1]) ELSE Len(arr.rows)
is2D(arr) == Len(arr.rows) > 1

\* what is handed to the values setter: an array, or something that is not
\* Iterable
ValuesArgument(iterable, arr) == [iterable |-> iterable, array |-> arr]
NotIterable == ValuesArgument(FALSE, NoVal)

\* the outcome of a setter: the exception, and the Clause afterwards
SetterOutcome(exc, obj) == [exc |-> exc, obj |-> obj]

\* Clause.values (setter).  len(self.__values[0]) or len(values[0]) raises
\* TypeError on a 1-D array, which the setter catches to compare the first
\* dimensions instead.
Clause_values_setter(self, values) ==
    IF ~values.iterable THEN SetterOutcome("TypeError", self)
    ELSE IF shape0(self.values) > 1
    THEN IF is2D(self.values) /\ is2D(values.array)
         THEN IF Len(self.values.rows[1]) # Len(values.array.rows[1])
              THEN SetterOutcome("ValueError", self)
              ELSE SetterOutcome("None", [self EXCEPT !.values = values.array])
         ELSE IF shape0(self.values) # shape0(values.array)
              THEN SetterOutcome("ValueError", self)
              ELSE SetterOutcome("None", [self EXCEPT !.values = values.array])
    ELSE IF shape0(self.values) # shape0(values.array)
         THEN SetterOutcome("ValueError", self)
         ELSE SetterOutcome("None", [self EXCEPT !.values = values.array])

Clause_fuzzy_set_setter_mutant(self, fuzzy_set) ==
    IF ~isinstance_FuzzySet(fuzzy_set) THEN SetterOutcome("TypeError", self)
    ELSE SetterOutcome("None",
            [self EXCEPT !.fuzzy_set = fuzzy_set,
                         !.values = Clause_calculate_values(self.linguistic_variable,
                                                            fuzzy_set).val])

\* Clause.fuzzy_set (setter)
Clause_fuzzy_set_setter(self, fuzzy_set) ==
    IF ~isinstance_FuzzySet(fuzzy_set) THEN SetterOutcome("TypeError", self)
    ELSE SetterOutcome("None", [self EXCEPT !.fuzzy_set = fuzzy_set])

\* Clause.linguistic_variable (setter)
Clause_linguistic_variable_setter(self, linguistic_variable) ==
    IF ~isinstance_LinguisticVariable(linguistic_variable)
    THEN SetterOutcome("TypeError", self)
    ELSE SetterOutcome("None", [self EXCEPT !.linguistic_variable = linguistic_variable])

\* Clause.gradation_adjective (setter)
Clause_gradation_adjective_setter(self, gradation_adjective) ==
    SetterOutcome("None", [self EXCEPT !.gradation_adjective = gradation_adjective])

NoSet == [op |-> "None", exc |-> "None", values |-> NotIterable]

\* -------------------------------------------------------- MamdaniConsequent
\* A rule firing handed to output: a float, a number that is not a float
\* (an int), or a 1-D iterable of floats.  None is NoClause.
RuleFiring(kind, v) == [kind |-> kind, v |-> v]

NoConsequent == [exc |-> "NotConstructed", clause |-> NoClause, cut_clause |-> NoClause]

\* MamdaniConsequent(clause)
MamdaniConsequent_init(clause) ==
    [exc |-> "None", clause |-> clause, cut_clause |-> NoClause]

\* np.minimum(values, rule_firing) for a float, and for the column
\* rule_firing.reshape(len(rule_firing), 1) of at least two entries: numpy
\* broadcasts the column against the rows of the table (a 1-D table is one
\* row) or raises
Mamdani_np_minimum(values, rule_firing) ==
    LET r == Len(values.rows)
        k == Len(rule_firing.v)
        n == Len(values.rows[1])
    IN  IF rule_firing.kind = "float"
        THEN FReturned(FVal(TRUE,
                 [j \in 1..r |-> [i \in 1..n |-> Min(values.rows[j][i], rule_firing.v[1])]]))
        ELSE IF r # 1 /\ r # k
        THEN FRaised("ValueError")
        ELSE FReturned(FVal(TRUE,
                 [j \in 1..k |->
                    [i \in 1..n |->
                        Min(values.rows[IF r = 1 THEN 1 ELSE j][i], rule_firing.v[j])]]))

\* the outcome of output: the exception, the Clause returned, and the
\* consequent afterwards
OutputOutcome(exc, clause, self) == [exc |-> exc, clause |-> clause, self |-> self]

MamdaniConsequent_cut_mutant(self, rule_firing) ==
    LET cut == Mamdani_np_minimum(self.clause.values, rule_firing)
        set == Clause_values_setter(self.clause, ValuesArgument(TRUE, cut.val))
    IN  IF cut.exc # "None" THEN OutputOutcome(cut.exc, NoClause, self)
        ELSE IF set.exc # "None" THEN OutputOutcome(set.exc, NoClause, self)
        ELSE OutputOutcome("None", set.obj,
                           [self EXCEPT !.clause = set.obj, !.cut_clause = set.obj])

\* MamdaniConsequent.__cut: the copy is stored in cut_clause before its
\* values are assigned
MamdaniConsequent_cut(self, rule_firing) ==
    LET copy == self.clause
        cut == Mamdani_np_minimum(copy.values, rule_firing)
        set == Clause_values_setter(copy, ValuesArgument(TRUE, cut.val))
    IN  IF cut.exc # "None"
        THEN OutputOutcome(cut.exc, NoClause, [self EXCEPT !.cut_clause = copy])
        ELSE IF set.exc # "None"
        THEN OutputOutcome(set.exc, NoClause, [self EXCEPT !.cut_clause = copy])
        ELSE OutputOutcome("None", set.obj, [self EXCEPT !.cut_clause = set.obj])

\* MamdaniConsequent.output
MamdaniConsequent_output(self, rule_firing) ==
    IF rule_firing.kind \in {"float", "iterable"}
    THEN MamdaniConsequent_cut(self, rule_firing)
    ELSE OutputOutcome("ValueError", NoClause, self)

NoOutput == [rule_firing |-> RuleFiring("None", <<>>), exc |-> "NotCalled", clause |-> NoClause]
MamdaniIdle == consequent = NoConsequent /\ output = NoOutput

\* ----------------------------------------------------- construction checks
\* what a caller may hand to a constructor in place of an Algebra, a
\* Clause, a LinguisticVariable, a FuzzySet or a Domain
AlgebraArguments == Algebras \cup {"not_an_Algebra"}
\* a Clause, None, an object that is not a Clause (a str), and one that is
\* not a Clause and is false in a condition (0)
TermClauseArguments == Clauses \cup {"None", "not_a_Clause", "falsy_not_a_Clause"}
NameArguments == {"None", "t"}

\* Antecedent.__init__: the exception of the type check
Antecedent_init(algebra) == IF algebra \notin Algebras THEN "TypeError" ELSE "None"

\* Term.__init__(algebra, clause, name): the exception raised, if any.
\* With no name given the name is read from clause.linguistic_variable,
\* which an object that is not a Clause does not have.
Term_init_raises(algebra, clause, name) ==
    IF Antecedent_init(algebra) # "None" THEN Antecedent_init(algebra)
    ELSE IF clause \in {"None", "falsy_not_a_Clause"} THEN "None"
    ELSE IF name = "None" /\ clause \notin Clauses THEN "AttributeError"
    ELSE "None"

NoConstruction ==
    [class |-> "None", exc |-> "None", algebra |-> "None", clause |-> "None",
     name |-> "None", linguistic_variable |-> NotALinguisticVariable,
     fuzzy_set |-> NotAFuzzySet, domain |-> NotADomain]
ConstructIdle == made = NoConstruction

\* ------------------------------------------- membership-function generators
\* Python numbers as exact fractions <<numerator, denominator>> in lowest
\* terms with a positive denominator; np.inf and -np.inf have denominator 0
RECURSIVE GCD(_, _)
GCD(m, n) == IF n = 0 THEN m ELSE GCD(n, m % n)
IAbs(k) == IF k < 0 THEN 0 - k ELSE k
Rat(num, den) ==
    IF den = 0 THEN <<IF num < 0 THEN 0 - 1 ELSE IF num > 0 THEN 1 ELSE 0, 0>>
    ELSE LET g == GCD(IAbs(num), IAbs(den))
             s == IF den < 0 THEN 0 - 1 ELSE 1
         IN  <<(s * num) \div g, (s * den) \div g>>
Num(k) == Rat(k, 1)
RAdd(p, q) == Rat(p[1] * q[2] + q[1] * p[2], p[2] * q[2])
RSub(p, q) == Rat(p[1] * q[2] - q[1] * p[2], p[2] * q[2])
RMul(p, q) == Rat(p[1] * q[1], p[2] * q[2])
RDiv(p, q) == Rat(p[1] * q[2], p[2] * q[1])
RLess(p, q) == p[1] * q[2] < q[1] * p[2]
PosInf == <<1, 0>>
NegInf == <<0 - 1, 0>>
\* an optional argument left at None
NoneArg == <<0, 0>>
\* the 0.001 by which the "full" generators pass the ends of the domain
Epsilon == Rat(1, 1000)

\* __calculate_sigma(first_mean, second_mean, max_value): the non-negative
\* sigma for which exp(-(x - first_mean)^2 / (2 sigma^2)) and
\* exp(-(x - second_mean)^2 / (2 sigma^2)) both equal max_value / 2 at a
\* common x.  That x is the midpoint of the two means, so with half the
\* distance of the midpoint from either mean and shift = max_value / 2,
\* sigma is half / sqrt(2 ln(1 / shift)); the root is kept in that form.
calculate_sigma(first_mean, second_mean, max_value) ==
    [half  |-> LET d == RSub(second_mean, first_mean)
               IN  RDiv(IF d[1] < 0 THEN RSub(Num(0), d) ELSE d, Num(2)),
     shift |-> RDiv(max_value, Num(2))]

\* the callables the shape functions return, by their bound parameters
gaussian(mean, sigma, max_value) ==
    [kind |-> "gaussian", params |-> <<mean, max_value>>, sigmas |-> <<sigma>>]
complex_gaussian(mean, first_sigma, second_sigma, min, max, max_value) ==
    [kind |-> "complex_gaussian", params |-> <<mean, min, max, max_value>>,
     sigmas |-> <<first_sigma, second_sigma>>]
triangular(l_end, center, r_end, max_value) ==
    [kind |-> "triangular", params |-> <<l_end, center, r_end, max_value>>,
     sigmas |-> <<>>]
trapezoidal(l_end, l_center, r_center, r_end, max_value) ==
    [kind |-> "trapezoidal",
     params |-> <<l_end, l_center, r_center, r_end, max_value>>, sigmas |-> <<>>]

\* what a generator hands back: the list of callables, or the exception
GenReturned(fns) == [exc |-> "None", fns |-> fns]
GenRaised(exc) == [exc |-> exc, fns |-> <<>>]

\* generate_equal_gausses(number_of_gausses, start, end, max_value, mid_ev)
generate_equal_gausses(number_of_gausses, start, end, max_value, mid_ev) ==
    LET domain == IF mid_ev # NoneArg THEN RMul(mid_ev, Num(2)) ELSE RSub(end, start)
        cross_points == number_of_gausses - 1
        expected_value_of_second_gaussian == RDiv(domain, Num(cross_points))
        std_deviation ==
            calculate_sigma(Num(0), expected_value_of_second_gaussian, max_value)
    IN  IF cross_points = 0 THEN GenRaised("ZeroDivisionError")
        ELSE GenReturned(
                [i \in 1..number_of_gausses |->
                    gaussian(IF i = 1 THEN Num(0)
                             ELSE RMul(RDiv(domain, Num(cross_points)), Num(i - 1)),
                             std_deviation, max_value)])

\* sin(exp(-k)) to three decimal places (0.359638, 0.134923, 0.049767,
\* 0.018315, 0.006738, 0.002479, ...)
SinExpNeg(k) ==
    Rat(CASE k = 1 -> 360 [] k = 2 -> 135 [] k = 3 -> 50 [] k = 4 -> 18
          [] k = 5 -> 7 [] k = 6 -> 2 [] OTHER -> 0, 1000)

\* __calculate_expected_value(x, middle) for x = sign * exp(-k)
calculate_expected_value(sign, k, middle) ==
    RAdd(RMul(Rat(sign, 2), SinExpNeg(k)), middle)

\* sorted(list)
RECURSIVE InsertSorted(_, _)
InsertSorted(x, seq) ==
    IF seq = <<>> THEN <<x>>
    ELSE IF RLess(seq[1], x) THEN <<seq[1]>> \o InsertSorted(x, Tail(seq))
    ELSE <<x>> \o seq
RECURSIVE sorted(_)
sorted(seq) == IF seq = <<>> THEN <<>> ELSE InsertSorted(seq[1], sorted(Tail(seq)))

\* the left and right expected values appended by the first loop
RECURSIVE AppendedExpectedValues(_, _, _)
AppendedExpectedValues(i, left_to_calc, middle) ==
    IF i >= left_to_calc THEN <<>>
    ELSE <<calculate_expected_value(0 - 1, left_to_calc - i, middle),
           calculate_expected_value(1, left_to_calc - i, middle)>>
         \o AppendedExpectedValues(i + 1, left_to_calc, middle)

\* generate_progressive_gausses(number_of_gausses, middle, max_value)
generate_progressive_gausses(number_of_gausses, middle, max_value) ==
    IF number_of_gausses < 3 THEN GenRaised("Exception")
    ELSE
    LET left_to_calc == (number_of_gausses - 3) \div 2
        expected_values ==
            sorted(<<Num(0), middle, Num(1)>>
                   \o AppendedExpectedValues(0, left_to_calc, middle))
        count == Len(expected_values)
        first_sigmas ==
            [i \in 1..count |->
                IF i < count
                THEN calculate_sigma(expected_values[i], expected_values[i + 1],
                                     max_value)
                ELSE calculate_sigma(expected_values[count - 1],
                                     expected_values[count], max_value)]
        second_sigmas ==
            [i \in 1..count |->
                IF i = 1 THEN first_sigmas[count] ELSE first_sigmas[i - 1]]
        ex_values_extended == <<NegInf>> \o expected_values \o <<PosInf>>
    IN  GenReturned(
            [i \in 1..count |->
                complex_gaussian(expected_values[i], second_sigmas[i],
                                 first_sigmas[i], ex_values_extended[i],
                                 ex_values_extended[i + 2], max_value)])

\* generate_even_triangulars(n_mfs, start, end, max_value)
generate_even_triangulars(n_mfs, start, end, max_value) ==
    LET step == RDiv(RSub(end, start), Num(n_mfs + 1))
        at(k) == RAdd(start, RMul(step, Num(k)))
    IN  GenReturned([i \in 1..n_mfs |->
                        triangular(at(i - 1), at(i), at(i + 1), max_value)])

\* generate_full_triangulars(n_mfs, start, end, max_value)
generate_full_triangulars(n_mfs, start, end, max_value) ==
    LET step == RDiv(RSub(end, start), Num(n_mfs - 1))
        at(k) == RAdd(start, RMul(step, Num(k)))
    IN  IF n_mfs - 1 = 0 THEN GenRaised("ZeroDivisionError")
        ELSE GenReturned(
               <<triangular(RSub(start, Epsilon), start, RAdd(start, step), max_value)>>
               \o [i \in 1..Max(n_mfs - 2, 0) |->
                      triangular(at(i - 1), at(i), at(i + 1), max_value)]
               \o <<triangular(RSub(end, step), end, RAdd(end, Epsilon), max_value)>>)

\* generate_even_trapezoidals(n_mfs, start, end, max_value)
generate_even_trapezoidals(n_mfs, start, end, max_value) ==
    LET step == RDiv(RSub(end, start), Num(2 * n_mfs + 1))
        at(k) == RAdd(start, RMul(step, Num(k)))
    IN  GenReturned([i \in 1..n_mfs |->
                        trapezoidal(at(2 * (i - 1)), at(2 * (i - 1) + 1),
                                    at(2 * (i - 1) + 2), at(2 * (i - 1) + 3),
                                    max_value)])

\* generate_full_trapezoidals(n_mfs, start, end, max_value)
generate_full_trapezoidals_mutant(n_mfs, start, end, max_value) ==
    LET step == RDiv(RSub(end, start), Num(2 * n_mfs - 1))
        at(k) == RAdd(start, RMul(step, Num(k)))
    IN  GenReturned(
           <<trapezoidal(RSub(start, Epsilon), start, at(1), at(2), max_value)>>
           \o [i \in 1..Max(n_mfs - 2, 0) |->
                  trapezoidal(at(2 * i - 1), at(2 * i), at(2 * i + 1),
                              at(2 * i + 2), max_value)]
           \o <<trapezoidal(RSub(end, RMul(step, Num(2))), RSub(end, step), end,
                            RAdd(end, Epsilon), max_value)>>)
generate_full_trapezoidals(n_mfs, start, end, max_value) ==
    LET step == RDiv(RSub(end, start), Num(2 * n_mfs - 1))
        at(k) == RAdd(start, RMul(step, Num(k)))
    IN  GenReturned(
           <<trapezoidal(RSub(start, Epsilon), start, at(1), at(2), max_value)>>
           \o [i \in 1..Max(n_mfs - 2, 0) |->
                  triangular(at(i), at(i + 1), at(i + 2), max_value)]
           \o <<trapezoidal(RSub(end, RMul(step, Num(2))), RSub(end, step), end,
                            RAdd(end, Epsilon), max_value)>>)

NoGenerated ==
    [fn |-> "None", n |-> 0, start |-> Num(0), end |-> Num(0),
     max_value |-> Num(1), mid_ev |-> NoneArg, middle |-> NoneArg,
     out |-> GenRaised("NotCalled")]
GeneratorIdle == generated = NoGenerated

\* ------------------------------------------- membership functions, called
RECURSIVE RPow(_, _)
RPow(p, k) == IF k = 0 THEN Num(1) ELSE RMul(p, RPow(p, k - 1))
RLeq(p, q) == ~RLess(q, p)
Midpoint(p, q) == RDiv(RAdd(p, q), Num(2))
RMin(p, q) == IF RLess(q, p) THEN q ELSE p
RMax(p, q) == IF RLess(p, q) THEN q ELSE p
\* a comparison used as a factor: True is 1, False is 0
Factor(cond) == IF cond THEN Num(1) ELSE Num(0)
\* a value this model cannot write as a fraction
NotAFraction == <<0, 0>>

\* __gaussian(value, mean, sigma, max_value):
\* max_value * exp(-(mean - value)^2 / (2 sigma^2)).  With sigma the root
\* half / sqrt(2 ln(1 / shift)) the exponential is shift^((d / half)^2) for
\* d = |mean - value|, a fraction whenever d is a whole multiple of half
\* (written out up to three halves away from the mean).
gaussian_call(mf, value) ==
    LET mean == mf.params[1]
        max_value == mf.params[2]
        sigma == mf.sigmas[1]
        d == IF RLess(value, mean) THEN RSub(mean, value) ELSE RSub(value, mean)
        ratio == RDiv(d, sigma.half)
    IN  IF ratio[2] = 1 /\ ratio[1] <= 3
        THEN RMul(max_value, RPow(sigma.shift, ratio[1] * ratio[1]))
        ELSE NotAFraction

\* triangular(...).output_mf(value)
triangular_call(mf, value) ==
    LET l_end == mf.params[1]
        center == mf.params[2]
        r_end == mf.params[3]
        max_value == mf.params[4]
    IN  RMin(Num(1), RMax(Num(0),
            RAdd(RMul(RDiv(RMul(max_value, RSub(value, l_end)),
                           RSub(center, l_end)),
                      Factor(RLeq(value, center))),
                 RMul(RMul(max_value,
                           RDiv(RSub(r_end, value), RSub(r_end, center))),
                      Factor(RLess(center, value))))))

\* trapezoidal(...).output_mf(value)
trapezoidal_call(mf, value) ==
    LET l_end == mf.params[1]
        l_center == mf.params[2]
        r_center == mf.params[3]
        r_end == mf.params[4]
        max_value == mf.params[5]
    IN  RMin(Num(1), RMax(Num(0),
            RAdd(RAdd(RMul(RMul(max_value,
                                RDiv(RSub(value, l_end), RSub(l_center, l_end))),
                           Factor(RLeq(value, l_center))),
                      RMul(RMul(max_value,
                                RDiv(RSub(r_end, value), RSub(r_end, r_center))),
                           Factor(RLeq(r_center, value)))),
                 RMul(max_value,
                      RMul(Factor(RLess(l_center, value)),
                           Factor(RLess(value, r_center)))))))

\* calling one of the callables the shape functions return
mf_call(mf, value) ==
    CASE mf.kind = "gaussian" -> gaussian_call(mf, value)
      [] mf.kind = "triangular" -> triangular_call(mf, value)
      [] mf.kind = "trapezoidal" -> trapezoidal_call(mf, value)
      [] OTHER -> NotAFraction

NoShapeCall ==
    [mf |-> gaussian(Num(0), calculate_sigma(Num(0), Num(1), Num(1)), Num(1)),
     value |-> Num(0), out |-> NotAFraction, called |-> FALSE,
     first_mean |-> Num(0), second_mean |-> Num(0)]
ShapeIdle == shaped = NoShapeCall

\* ------------------------------------------------------ grouping functions
\* what a grouping function hands back: the exception with the parts of its
\* message, or the number of membership functions (count), of linguistic
\* variables, and of fuzzy sets and clauses made for each variable
GroupRaised(exc, msg) ==
    [exc |-> exc, msg |-> msg, count |-> 0, ling_vars |-> 0, fuzzy_sets |-> 0,
     clauses |-> 0]
GroupFunctions(count) ==
    [exc |-> "None", msg |-> <<>>, count |-> count, ling_vars |-> 0,
     fuzzy_sets |-> 0, clauses |-> 0]
\* raise NotImplemented(message): NotImplemented is the constant, not the
\* exception class NotImplementedError, and calling it is the error
raise_NotImplemented(message) ==
    GroupRaised("TypeError", <<"'NotImplementedType' object is not callable">>)
\* the outcome of a generator, as a list of functions or its exception
FromGenerator(out) ==
    IF out.exc # "None" THEN GroupRaised(out.exc, <<>>)
    ELSE GroupFunctions(Len(out.fns))
\* zip(lower_fuzzy_sets, upper_fuzzy_sets), the upper list computed first
ZipGenerated(upper, lower) ==
    IF upper.exc # "None" THEN GroupRaised(upper.exc, <<>>)
    ELSE IF lower.exc # "None" THEN GroupRaised(lower.exc, <<>>)
    ELSE GroupFunctions(Min(Len(lower.fns), Len(upper.fns)))

\* the default domain Domain(0, 1.001, 0.001): domain.min and
\* domain.max - domain.precision
GroupStart == Num(0)
GroupEnd == RSub(Rat(1001, 1000), Rat(1, 1000))
\* the defaults lower_scaling = 0.8 and middle_val = 0.5
LowerScaling == Rat(4, 5)
MiddleVal == Rat(1, 2)

create_gausses_t1(n_mfs, mode) ==
    IF mode \in {"equal", "default"}
    THEN FromGenerator(generate_equal_gausses(n_mfs, GroupStart, GroupEnd, Num(1),
                                              NoneArg))
    ELSE IF mode = "progressive"
    THEN FromGenerator(generate_progressive_gausses(n_mfs, MiddleVal, Num(1)))
    ELSE raise_NotImplemented(
            <<"Gaussian fuzzy sets mode can be either equal or progressive, not ",
              mode>>)

create_triangular_t1(n_mfs, mode) ==
    IF mode \in {"equal", "default"}
    THEN FromGenerator(generate_even_triangulars(n_mfs, GroupStart, GroupEnd, Num(1)))
    ELSE IF mode = "full"
    THEN FromGenerator(generate_full_triangulars(n_mfs, GroupStart, GroupEnd, Num(1)))
    ELSE raise_NotImplemented(
            <<"Triangular fuzzy sets mode can be either even or full, not ", mode>>)

create_trapezoidal_t1(n_mfs, mode) ==
    IF mode \in {"equal", "default"}
    THEN FromGenerator(generate_even_trapezoidals(n_mfs, GroupStart, GroupEnd, Num(1)))
    ELSE IF mode = "full"
    THEN FromGenerator(generate_full_trapezoidals(n_mfs, GroupStart, GroupEnd, Num(1)))
    ELSE raise_NotImplemented(
            <<"Trapezoidal fuzzy sets mode can be either even or full, not ", mode>>)

\* adjustment is 'center' or 'mean'
create_gausses_it2(n_mfs, mode, adjustment) ==
    IF mode \in {"equal", "default"}
    THEN LET mid_ev == IF adjustment = "mean" THEN MiddleVal ELSE NoneArg
         IN  ZipGenerated(
                generate_equal_gausses(n_mfs, GroupStart, GroupEnd, Num(1), mid_ev),
                generate_equal_gausses(n_mfs, GroupStart, GroupEnd, LowerScaling,
                                       mid_ev))
    ELSE IF mode = "progressive"
    THEN ZipGenerated(generate_progressive_gausses(n_mfs, MiddleVal, Num(1)),
                      generate_progressive_gausses(n_mfs, MiddleVal, LowerScaling))
    ELSE raise_NotImplemented(
            <<"Gaussian fuzzy sets mode can be either equal or progressive, not ",
              mode>>)

create_triangular_it2(n_mfs, mode) ==
    IF mode \in {"equal", "default"}
    THEN ZipGenerated(
            generate_even_triangulars(n_mfs, GroupStart, GroupEnd, Num(1)),
            generate_even_triangulars(n_mfs, GroupStart, GroupEnd, LowerScaling))
    ELSE IF mode = "full"
    THEN ZipGenerated(
            generate_full_triangulars(n_mfs, GroupStart, GroupEnd, Num(1)),
            generate_full_triangulars(n_mfs, GroupStart, GroupEnd, LowerScaling))
    ELSE raise_NotImplemented(
            <<"Triangular fuzzy sets mode can be either even or full, not ", mode>>)

create_trapezoidal_it2(n_mfs, mode) ==
    IF mode \in {"equal", "default"}
    THEN ZipGenerated(
            generate_even_trapezoidals(n_mfs, GroupStart, GroupEnd, Num(1)),
            generate_even_trapezoidals(n_mfs, GroupStart, GroupEnd, LowerScaling))
    ELSE IF mode = "full"
    THEN ZipGenerated(
            generate_full_trapezoidals(n_mfs, GroupStart, GroupEnd, Num(1)),
            generate_full_trapezoidals(n_mfs, GroupStart, GroupEnd, LowerScaling))
    ELSE raise_NotImplemented(
            <<"Trapezoidal fuzzy sets mode can be either even or full, not ", mode>>)

\* create_set_of_variables.__create_membership_functions; with a
\* fuzzy_set_type that is neither 't1' nor 'it2' the name
\* membership_functions is returned without ever being bound
create_membership_functions(mf_type, n_mfs, fuzzy_set_type, mode) ==
    IF fuzzy_set_type = "t1"
    THEN CASE mf_type = "gaussian" -> create_gausses_t1(n_mfs, mode)
           [] mf_type = "triangular" -> create_triangular_t1(n_mfs, mode)
           [] mf_type = "trapezoidal" -> create_trapezoidal_t1(n_mfs, mode)
           [] mf_type = "sigmoid" -> GroupFunctions(2)
           [] OTHER -> raise_NotImplemented(
                          <<"mf_type of type ", mf_type, " is not yet implemented.">>)
    ELSE IF fuzzy_set_type = "it2"
    THEN CASE mf_type = "gaussian" -> create_gausses_it2(n_mfs, mode, "center")
           [] mf_type = "triangular" -> create_triangular_it2(n_mfs, mode)
           [] mf_type = "trapezoidal" -> create_trapezoidal_it2(n_mfs, mode)
           [] mf_type = "sigmoid" -> GroupFunctions(2)
           [] OTHER -> raise_NotImplemented(
                          <<"mf_type of type ", mf_type, " is not yet implemented.">>)
    ELSE GroupRaised("UnboundLocalError", <<>>)

\* the values of n_mfs that have a list of gradation adjectives
SupportedNMfs == {2, 3, 5, 7, 9, 11}

\* create_set_of_variables(ling_var_names, mf_type=, n_mfs=, fuzzy_set_type=,
\* mode=) for names ling_var_names, with the default domain, adjustment
\* 'center' and middle_vals 0.5.  With mode 'progressive' kept (Gaussians)
\* the float middle_vals is not iterable and no fuzzy set is made.
create_set_of_variables(names, mf_type, n_mfs, fuzzy_set_type, mode) ==
    LET mode_used == IF mode = "progressive" /\ mf_type # "gaussian"
                     THEN "full" ELSE mode
        membership_functions ==
            create_membership_functions(mf_type, n_mfs, fuzzy_set_type, mode_used)
    IN  IF n_mfs \notin SupportedNMfs
        THEN raise_NotImplemented(
                <<"n_mfs must have value from set {2, 3, 5, 7, 9, 11}">>)
        ELSE IF mode_used = "progressive"
        THEN [GroupFunctions(0) EXCEPT !.ling_vars = names]
        ELSE IF membership_functions.exc # "None" THEN membership_functions
        ELSE [GroupFunctions(membership_functions.count) EXCEPT
                 !.ling_vars = names,
                 !.fuzzy_sets = Min(n_mfs, membership_functions.count),
                 !.clauses = Min(n_mfs, membership_functions.count)]

NoGrouping ==
    [fn |-> "None", mf_type |-> "None", n_mfs |-> 0, fuzzy_set_type |-> "None",
     mode |-> "None", out |-> GroupRaised("NotCalled", <<>>)]
GroupIdle == grouped = NoGrouping

NoGet == [x |-> Scalar(0), out |-> FRaised("NotCalled")]
ClauseIdle == clauseObj = NoClause /\ got = NoGet /\ fsCalls = 0 /\ setOut = NoSet

\* --------------------------------------------------------- algebra driver
\* The operands a, b, c are drawn when the run starts; each action is one
\* call of an operator of one algebra on them, recorded in call.
NoCall == [alg |-> "None", op |-> "None", out |-> Returned(Scalar(0))]

AlgebraIdle == a = Scalar(0) /\ b = Scalar(0) /\ c = Scalar(0) /\ call = NoCall

InitAlgebra ==
    /\ \/ a \in Scalars /\ b \in Scalars /\ c \in Scalars
       \/ a \in Operands /\ b \in Operands /\ (a.iter \/ b.iter) /\ c = Scalar(0)
    /\ call = NoCall
    /\ TermsIdle /\ FuzzyIdle /\ ClauseIdle /\ MamdaniIdle /\ ConstructIdle /\ GeneratorIdle /\ ShapeIdle /\ GroupIdle

CallTNorm ==
    /\ \E alg \in Algebras :
          call' = [alg |-> alg, op |-> "t_norm", out |-> t_norm(alg, a, b)]
    /\ UNCHANGED <<a, b, c>>
    /\ UNCHANGED <<termVars, fuzzyVars, clauseVars, mamdaniVars, constructVars, generatorVars, shapeVars, groupVars>>

CallSNorm ==
    /\ \E alg \in Algebras :
          call' = [alg |-> alg, op |-> "s_norm", out |-> s_norm(alg, a, b)]
    /\ UNCHANGED <<a, b, c>>
    /\ UNCHANGED <<termVars, fuzzyVars, clauseVars, mamdaniVars, constructVars, generatorVars, shapeVars, groupVars>>

CallImplication ==
    /\ \E alg \in Algebras :
          call' = [alg |-> alg, op |-> "implication", out |-> implication(alg, a, b)]
    /\ UNCHANGED <<a, b, c>>
    /\ UNCHANGED <<termVars, fuzzyVars, clauseVars, mamdaniVars, constructVars, generatorVars, shapeVars, groupVars>>

CallNegation ==
    /\ \E alg \in Algebras :
          call' = [alg |-> alg, op |-> "negation", out |-> negation(alg, a)]
    /\ UNCHANGED <<a, b, c>>
    /\ UNCHANGED <<termVars, fuzzyVars, clauseVars, mamdaniVars, constructVars, generatorVars, shapeVars, groupVars>>

NextAlgebra == CallTNorm \/ CallSNorm \/ CallImplication \/ CallNegation

SpecAlgebra == InitAlgebra /\ [][NextAlgebra]_vars

\* ------------------------------------------------------------ Term driver
InitTerm ==
    /\ AlgebraIdle /\ TermsIdle /\ FuzzyIdle /\ ClauseIdle /\ MamdaniIdle /\ ConstructIdle /\ GeneratorIdle /\ ShapeIdle /\ GroupIdle

\* Term(algebra, clause)
NewTerm(alg, clause) ==
    /\ nops < MaxOps
    /\ LET self == Len(terms) + 1
       IN  /\ terms' = Append(terms, [Term_init(alg, clause) EXCEPT
                                         !.fire = partial_dict_clause(self, clause)])
           /\ built' = Append(built, [expr |-> Leaf(alg, clause), parts |-> {self}])
    /\ nops' = nops + 1
    /\ UNCHANGED lastFire

And_new_term_mutant(self, other) ==
    [Term_init(terms[other].algebra, "None") EXCEPT
        !.name = terms[self].name \o <<"&">> \o terms[other].name,
        !.fire = partial_apply_dict_t_norm(self, other)]

\* the Term that self & other returns
And_new_term(self, other) ==
    [Term_init(terms[self].algebra, "None") EXCEPT
        !.name = terms[self].name \o <<"&">> \o terms[other].name,
        !.fire = partial_apply_dict_t_norm(self, other)]

\* the Term that self | other returns
Or_new_term(self, other) ==
    [Term_init(terms[self].algebra, "None") EXCEPT
        !.name = terms[self].name \o <<"|">> \o terms[other].name,
        !.fire = partial_apply_dict_s_norm(self, other)]

\* self & other
And(self, other) ==
    /\ nops < MaxOps
    /\ terms' = Append(terms, And_new_term(self, other))
    /\ built' = Append(built,
          [expr |-> Node("and", And_new_term(self, other).algebra,
                         built[self].expr, built[other].expr),
           parts |-> built[self].parts \cup built[other].parts \cup {Len(terms) + 1}])
    /\ nops' = nops + 1
    /\ UNCHANGED lastFire

\* self | other
Or(self, other) ==
    /\ nops < MaxOps
    /\ terms' = Append(terms, Or_new_term(self, other))
    /\ built' = Append(built,
          [expr |-> Node("or", Or_new_term(self, other).algebra,
                         built[self].expr, built[other].expr),
           parts |-> built[self].parts \cup built[other].parts \cup {Len(terms) + 1}])
    /\ nops' = nops + 1
    /\ UNCHANGED lastFire

\* term.fire(dict_)
Fire(t, dict_) ==
    /\ nops < MaxOps
    /\ lastFire' = [term |-> t, dict_ |-> dict_, out |-> fire(terms, t, dict_)]
    /\ nops' = nops + 1
    /\ UNCHANGED <<terms, built>>

Term_init_call ==
    /\ \E alg \in Algebras, clause \in Clauses : NewTerm(alg, clause)
    /\ UNCHANGED <<algebraVars, fuzzyVars, clauseVars, mamdaniVars, constructVars, generatorVars, shapeVars, groupVars>>

Term_and ==
    /\ \E self \in TermIds, other \in TermIds : And(self, other)
    /\ UNCHANGED <<algebraVars, fuzzyVars, clauseVars, mamdaniVars, constructVars, generatorVars, shapeVars, groupVars>>

Term_or ==
    /\ \E self \in TermIds, other \in TermIds : Or(self, other)
    /\ UNCHANGED <<algebraVars, fuzzyVars, clauseVars, mamdaniVars, constructVars, generatorVars, shapeVars, groupVars>>

Term_fire ==
    /\ \E t \in TermIds, dict_ \in Assignments : Fire(t, dict_)
    /\ UNCHANGED <<algebraVars, fuzzyVars, clauseVars, mamdaniVars, constructVars, generatorVars, shapeVars, groupVars>>

NextTerm == Term_init_call \/ Term_and \/ Term_or \/ Term_fire

SpecTerm == InitTerm /\ [][NextTerm]_vars

\* ------------------------------------------- Term driver, with fire assigned
\* t.fire = u.fire: the setter stores what it is given, here the firing
\* function read from a Term
SetFire(t, u) ==
    /\ nops < MaxOps
    /\ terms' = [terms EXCEPT ![t].fire = terms[u].fire]
    /\ nops' = nops + 1
    /\ UNCHANGED <<lastFire, built>>

Term_set_fire ==
    /\ \E t \in TermIds, u \in TermIds : SetFire(t, u)
    /\ UNCHANGED <<algebraVars, fuzzyVars, clauseVars, mamdaniVars, constructVars, generatorVars, shapeVars, groupVars>>

NextTermSetFire ==
    Term_init_call \/ Term_and \/ Term_or \/ Term_fire \/ Term_set_fire

SpecTermSetFire == InitTerm /\ [][NextTermSetFire]_vars

\* ------------------------------------------------------- fuzzy set driver
InitFuzzySet == AlgebraIdle /\ TermsIdle /\ FuzzyIdle /\ ClauseIdle /\ MamdaniIdle /\ ConstructIdle /\ GeneratorIdle /\ ShapeIdle /\ GroupIdle

\* Type1FuzzySet(mf)
NewType1FuzzySet ==
    /\ fset.exc # "None"
    /\ \E mf \in MembershipArguments : fset' = Type1FuzzySet_init(mf)
    /\ UNCHANGED <<fcall, algebraVars, termVars, clauseVars, mamdaniVars, constructVars, generatorVars, shapeVars, groupVars>>

\* IntervalType2FuzzySet(lmf, umf)
NewIntervalType2FuzzySet ==
    /\ fset.exc # "None"
    /\ \E lmf \in MembershipArguments, umf \in MembershipArguments :
          fset' = IntervalType2FuzzySet_init(lmf, umf)
    /\ UNCHANGED <<fcall, algebraVars, termVars, clauseVars, mamdaniVars, constructVars, generatorVars, shapeVars, groupVars>>

\* fuzzy_set(x)
CallFuzzySet ==
    /\ fset.exc = "None"
    /\ \E x \in XInputs : fcall' = [x |-> x, out |-> FuzzySet_call(fset, x)]
    /\ UNCHANGED <<fset, algebraVars, termVars, clauseVars, mamdaniVars, constructVars, generatorVars, shapeVars, groupVars>>

NextFuzzySet == NewType1FuzzySet \/ NewIntervalType2FuzzySet \/ CallFuzzySet

SpecFuzzySet == InitFuzzySet /\ [][NextFuzzySet]_vars

\* ---------------------------------------------------------- Clause driver
InitClause == AlgebraIdle /\ TermsIdle /\ FuzzyIdle /\ ClauseIdle /\ MamdaniIdle /\ ConstructIdle /\ GeneratorIdle /\ ShapeIdle /\ GroupIdle

\* Clause(LinguisticVariable(name, domain), adjective, fuzzy_set)
NewClause ==
    /\ clauseObj.exc = "NotConstructed"
    /\ \E domain \in Domains, fuzzy_set \in FuzzySets :
          clauseObj' = Clause_init(LinguisticVariable_init("x", domain), "high", fuzzy_set)
    /\ fsCalls' = fsCalls + 1
    /\ UNCHANGED <<got, setOut, algebraVars, termVars, fuzzyVars, mamdaniVars, constructVars, generatorVars, shapeVars, groupVars>>

\* clause.get_value(x), the one lookup of the run: get_value assigns
\* nothing of the Clause
GetValue ==
    /\ clauseObj.exc = "None"
    /\ got = NoGet
    /\ \E x \in XInputs :
          /\ got' = [x |-> x, out |-> Clause_get_value(clauseObj, x).out]
          /\ fsCalls' = fsCalls + Clause_get_value(clauseObj, x).fuzzy_set_calls
    /\ UNCHANGED <<clauseObj, setOut, algebraVars, termVars, fuzzyVars, mamdaniVars, constructVars, generatorVars, shapeVars, groupVars>>

NextClause == NewClause \/ GetValue

SpecClause == InitClause /\ [][NextClause]_vars

\* ---------------------------------------------- Clause driver, with setters
\* the Domains, fuzzy sets and arrays of these runs: Domains of 1 .. MaxX
\* points, a type-1 and an interval type-2 set, arrays of 1 .. MaxRows rows
\* (one row is a 1-D array) and 1 .. MaxX columns.  A run constructs one
\* Clause, calls setters on it any number of times and ends with one lookup
\* of a number: get_value assigns nothing of the Clause.
SetterDomains == {Domain_init(0, hi, 1) : hi \in 1..MaxX}
SetterFuzzySets ==
    {Type1FuzzySet_init("identity"), Type1FuzzySet_init("one"),
     IntervalType2FuzzySet_init("complement", "one")}
NewValues ==
    {ValuesArgument(TRUE, FVal(TRUE, [r \in 1..rows |-> [i \in 1..cols |-> 1]])) :
        rows \in 1..MaxRows, cols \in 1..MaxX}
    \cup {NotIterable}

\* Clause(LinguisticVariable(name, domain), adjective, fuzzy_set)
NewClauseToSet ==
    /\ clauseObj.exc = "NotConstructed"
    /\ \E domain \in SetterDomains, fuzzy_set \in SetterFuzzySets :
          clauseObj' = Clause_init(LinguisticVariable_init("x", domain), "high", fuzzy_set)
    /\ fsCalls' = fsCalls + 1
    /\ UNCHANGED <<got, setOut, algebraVars, termVars, fuzzyVars, mamdaniVars, constructVars, generatorVars, shapeVars, groupVars>>

\* clause.values = values
SetValues ==
    /\ clauseObj.exc = "None"
    /\ got = NoGet
    /\ \E values \in NewValues :
          /\ clauseObj' = Clause_values_setter(clauseObj, values).obj
          /\ setOut' = [op |-> "values", values |-> values,
                        exc |-> Clause_values_setter(clauseObj, values).exc]
    /\ UNCHANGED <<got, fsCalls, algebraVars, termVars, fuzzyVars, mamdaniVars, constructVars, generatorVars, shapeVars, groupVars>>

\* clause.fuzzy_set = fuzzy_set
SetFuzzySet ==
    /\ clauseObj.exc = "None"
    /\ got = NoGet
    /\ \E fuzzy_set \in SetterFuzzySets \cup {NotAFuzzySet} :
          /\ clauseObj' = Clause_fuzzy_set_setter(clauseObj, fuzzy_set).obj
          /\ setOut' = [op |-> "fuzzy_set", values |-> NotIterable,
                        exc |-> Clause_fuzzy_set_setter(clauseObj, fuzzy_set).exc]
    /\ UNCHANGED <<got, fsCalls, algebraVars, termVars, fuzzyVars, mamdaniVars, constructVars, generatorVars, shapeVars, groupVars>>

\* clause.linguistic_variable = linguistic_variable
SetLinguisticVariable ==
    /\ clauseObj.exc = "None"
    /\ got = NoGet
    /\ \E linguistic_variable \in
             {LinguisticVariable_init("y", domain) : domain \in SetterDomains}
             \cup {NotALinguisticVariable} :
          /\ clauseObj' =
                Clause_linguistic_variable_setter(clauseObj, linguistic_variable).obj
          /\ setOut' = [op |-> "linguistic_variable", values |-> NotIterable,
                        exc |-> Clause_linguistic_variable_setter(
                                    clauseObj, linguistic_variable).exc]
    /\ UNCHANGED <<got, fsCalls, algebraVars, termVars, fuzzyVars, mamdaniVars, constructVars, generatorVars, shapeVars, groupVars>>

\* clause.gradation_adjective = gradation_adjective
SetGradationAdjective ==
    /\ clauseObj.exc = "None"
    /\ got = NoGet
    /\ clauseObj' = Clause_gradation_adjective_setter(clauseObj, "low").obj
    /\ setOut' = [op |-> "gradation_adjective", values |-> NotIterable,
                  exc |-> Clause_gradation_adjective_setter(clauseObj, "low").exc]
    /\ UNCHANGED <<got, fsCalls, algebraVars, termVars, fuzzyVars, mamdaniVars, constructVars, generatorVars, shapeVars, groupVars>>

\* clause.get_value(x) for a number x
GetValueOfScalar ==
    /\ clauseObj.exc = "None"
    /\ got = NoGet
    /\ \E x \in XScalars :
          /\ got' = [x |-> x, out |-> Clause_get_value(clauseObj, x).out]
          /\ fsCalls' = fsCalls + Clause_get_value(clauseObj, x).fuzzy_set_calls
    /\ UNCHANGED <<clauseObj, setOut, algebraVars, termVars, fuzzyVars, mamdaniVars, constructVars, generatorVars, shapeVars, groupVars>>

NextClauseSetters ==
    \/ NewClauseToSet \/ GetValueOfScalar
    \/ SetValues \/ SetFuzzySet \/ SetLinguisticVariable \/ SetGradationAdjective

SpecClauseSetters == InitClause /\ [][NextClauseSetters]_vars

\* ----------------------------------------------- MamdaniConsequent driver
\* the rule firings of the runs: a float, an int, a 1-D iterable of two or
\* more floats
RuleFirings ==
    {RuleFiring("float", <<k>>) : k \in Degrees}
    \cup {RuleFiring("int", <<1>>)}
    \cup {RuleFiring("iterable", v) : v \in SeqsUpTo(Degrees, MaxLen) \ SeqsUpTo(Degrees, 1)}

InitMamdani == AlgebraIdle /\ TermsIdle /\ FuzzyIdle /\ ClauseIdle /\ MamdaniIdle /\ ConstructIdle /\ GeneratorIdle /\ ShapeIdle /\ GroupIdle

\* MamdaniConsequent(Clause(LinguisticVariable(name, domain), adjective,
\* fuzzy_set))
NewMamdaniConsequent ==
    /\ consequent.exc = "NotConstructed"
    /\ \E domain \in SetterDomains, fuzzy_set \in SetterFuzzySets :
          consequent' = MamdaniConsequent_init(
              Clause_init(LinguisticVariable_init("x", domain), "high", fuzzy_set))
    /\ UNCHANGED <<output, algebraVars, termVars, fuzzyVars, clauseVars, constructVars, generatorVars, shapeVars, groupVars>>

\* consequent.output(rule_firing)
MamdaniOutput ==
    /\ consequent.exc = "None"
    /\ \E rule_firing \in RuleFirings :
          /\ consequent' = MamdaniConsequent_output(consequent, rule_firing).self
          /\ output' = [rule_firing |-> rule_firing,
                        exc |-> MamdaniConsequent_output(consequent, rule_firing).exc,
                        clause |-> MamdaniConsequent_output(consequent, rule_firing).clause]
    /\ UNCHANGED <<algebraVars, termVars, fuzzyVars, clauseVars, constructVars, generatorVars, shapeVars, groupVars>>

NextMamdani == NewMamdaniConsequent \/ MamdaniOutput

SpecMamdani == InitMamdani /\ [][NextMamdani]_vars

\* ------------------------------------------------------ constructor driver
InitConstruct ==
    AlgebraIdle /\ TermsIdle /\ FuzzyIdle /\ ClauseIdle /\ MamdaniIdle /\ ConstructIdle /\ GeneratorIdle /\ ShapeIdle /\ GroupIdle

\* Term(algebra, clause, name)
ConstructTerm ==
    /\ \E algebra \in AlgebraArguments, clause \in TermClauseArguments,
          name \in NameArguments :
          made' = [NoConstruction EXCEPT
                      !.class = "Term", !.algebra = algebra, !.clause = clause,
                      !.name = name, !.exc = Term_init_raises(algebra, clause, name)]
    /\ UNCHANGED <<algebraVars, termVars, fuzzyVars, clauseVars, mamdaniVars, generatorVars, shapeVars, groupVars>>

\* Clause(linguistic_variable, adjective, fuzzy_set)
ConstructClause ==
    /\ \E linguistic_variable \in
             {LinguisticVariable_init("x", domain) : domain \in Domains}
             \cup {NotALinguisticVariable},
          fuzzy_set \in FuzzySets \cup {NotAFuzzySet} :
          made' = [NoConstruction EXCEPT
                      !.class = "Clause", !.linguistic_variable = linguistic_variable,
                      !.fuzzy_set = fuzzy_set,
                      !.exc = Clause_init(linguistic_variable, "high", fuzzy_set).exc]
    /\ UNCHANGED <<algebraVars, termVars, fuzzyVars, clauseVars, mamdaniVars, generatorVars, shapeVars, groupVars>>

\* LinguisticVariable(name, domain)
ConstructLinguisticVariable ==
    /\ \E domain \in Domains \cup {NotADomain} :
          made' = [NoConstruction EXCEPT
                      !.class = "LinguisticVariable", !.domain = domain,
                      !.exc = LinguisticVariable_init("x", domain).exc]
    /\ UNCHANGED <<algebraVars, termVars, fuzzyVars, clauseVars, mamdaniVars, generatorVars, shapeVars, groupVars>>

NextConstruct == ConstructTerm \/ ConstructClause \/ ConstructLinguisticVariable

SpecConstruct == InitConstruct /\ [][NextConstruct]_vars

\* ------------------------------------------------------- generator driver
\* counts from 1 up, so that the smallest counts each generator takes and
\* the ones it refuses both occur
Counts == 1..MaxN
\* a domain [start, end] with start < end
Starts == {Num(k) : k \in 0..(MaxX - 1)}
Ends == {Num(k) : k \in 1..MaxX}
MaxValues == {Num(1), Rat(1, 2)}
MidEvs == {NoneArg, Num(1), Rat(1, 2)}
Middles == {Rat(1, 2), Rat(1, 4)}

InitGenerator ==
    /\ AlgebraIdle /\ TermsIdle /\ FuzzyIdle /\ ClauseIdle /\ MamdaniIdle
    /\ ConstructIdle /\ GeneratorIdle /\ ShapeIdle /\ GroupIdle

Generated(fn, n, start, end, max_value, mid_ev, middle, out) ==
    [fn |-> fn, n |-> n, start |-> start, end |-> end, max_value |-> max_value,
     mid_ev |-> mid_ev, middle |-> middle, out |-> out]

GenerateEqualGausses ==
    /\ \E n \in Counts, start \in Starts, end \in Ends, max_value \in MaxValues,
          mid_ev \in MidEvs :
          /\ RLess(start, end)
          /\ generated' = Generated("generate_equal_gausses", n, start, end,
                             max_value, mid_ev, NoneArg,
                             generate_equal_gausses(n, start, end, max_value, mid_ev))
    /\ UNCHANGED <<algebraVars, termVars, fuzzyVars, clauseVars, mamdaniVars,
                   constructVars, shapeVars, groupVars>>

GenerateProgressiveGausses ==
    /\ \E n \in Counts, middle \in Middles, max_value \in MaxValues :
          generated' = Generated("generate_progressive_gausses", n, Num(0), Num(1),
                          max_value, NoneArg, middle,
                          generate_progressive_gausses(n, middle, max_value))
    /\ UNCHANGED <<algebraVars, termVars, fuzzyVars, clauseVars, mamdaniVars,
                   constructVars, shapeVars, groupVars>>

GenerateEvenTriangulars ==
    /\ \E n \in Counts, start \in Starts, end \in Ends, max_value \in MaxValues :
          /\ RLess(start, end)
          /\ generated' = Generated("generate_even_triangulars", n, start, end,
                             max_value, NoneArg, NoneArg,
                             generate_even_triangulars(n, start, end, max_value))
    /\ UNCHANGED <<algebraVars, termVars, fuzzyVars, clauseVars, mamdaniVars,
                   constructVars, shapeVars, groupVars>>

GenerateFullTriangulars ==
    /\ \E n \in Counts, start \in Starts, end \in Ends, max_value \in MaxValues :
          /\ RLess(start, end)
          /\ generated' = Generated("generate_full_triangulars", n, start, end,
                             max_value, NoneArg, NoneArg,
                             generate_full_triangulars(n, start, end, max_value))
    /\ UNCHANGED <<algebraVars, termVars, fuzzyVars, clauseVars, mamdaniVars,
                   constructVars, shapeVars, groupVars>>

GenerateEvenTrapezoidals ==
    /\ \E n \in Counts, start \in Starts, end \in Ends, max_value \in MaxValues :
          /\ RLess(start, end)
          /\ generated' = Generated("generate_even_trapezoidals", n, start, end,
                             max_value, NoneArg, NoneArg,
                             generate_even_trapezoidals(n, start, end, max_value))
    /\ UNCHANGED <<algebraVars, termVars, fuzzyVars, clauseVars, mamdaniVars,
                   constructVars, shapeVars, groupVars>>

GenerateFullTrapezoidals ==
    /\ \E n \in Counts, start \in Starts, end \in Ends, max_value \in MaxValues :
          /\ RLess(start, end)
          /\ generated' = Generated("generate_full_trapezoidals", n, start, end,
                             max_value, NoneArg, NoneArg,
                             generate_full_trapezoidals(n, start, end, max_value))
    /\ UNCHANGED <<algebraVars, termVars, fuzzyVars, clauseVars, mamdaniVars,
                   constructVars, shapeVars, groupVars>>

NextGenerator ==
    \/ GenerateEqualGausses
    \/ GenerateProgressiveGausses
    \/ GenerateEvenTriangulars
    \/ GenerateFullTriangulars
    \/ GenerateEvenTrapezoidals
    \/ GenerateFullTrapezoidals

SpecGenerator == InitGenerator /\ [][NextGenerator]_vars

\* ---------------------------------------------- membership-function driver
\* heights, the ends and centres of the shapes, and the values they are
\* called with: the half steps from one below the least end to one above
\* the greatest
ShapeMaxValues == {Rat(1, 2), Num(1), Num(2)}
ShapePoints == {Num(k) : k \in 0..MaxX}
ShapeValues == {Rat(k, 2) : k \in (0 - 2)..(2 * MaxX + 2)}

InitShape ==
    /\ AlgebraIdle /\ TermsIdle /\ FuzzyIdle /\ ClauseIdle /\ MamdaniIdle
    /\ ConstructIdle /\ GeneratorIdle /\ ShapeIdle /\ GroupIdle

ShapeCalled(mf, value, first_mean, second_mean) ==
    [mf |-> mf, value |-> value, out |-> mf_call(mf, value), called |-> TRUE,
     first_mean |-> first_mean, second_mean |-> second_mean]

\* triangular(l_end, center, r_end, max_value)(value)
CallTriangular ==
    /\ \E l_end \in ShapePoints, center \in ShapePoints, r_end \in ShapePoints,
          max_value \in ShapeMaxValues, value \in ShapeValues :
          /\ RLess(l_end, center) /\ RLess(center, r_end)
          /\ shaped' = ShapeCalled(triangular(l_end, center, r_end, max_value),
                                   value, Num(0), Num(0))
    /\ UNCHANGED <<algebraVars, termVars, fuzzyVars, clauseVars, mamdaniVars,
                   constructVars, generatorVars, groupVars>>

\* trapezoidal(l_end, l_center, r_center, r_end, max_value)(value)
CallTrapezoidal ==
    /\ \E l_end \in ShapePoints, l_center \in ShapePoints, r_center \in ShapePoints,
          r_end \in ShapePoints, max_value \in ShapeMaxValues,
          value \in ShapeValues :
          /\ RLess(l_end, l_center) /\ RLeq(l_center, r_center)
          /\ RLess(r_center, r_end)
          /\ shaped' = ShapeCalled(
                          trapezoidal(l_end, l_center, r_center, r_end, max_value),
                          value, Num(0), Num(0))
    /\ UNCHANGED <<algebraVars, termVars, fuzzyVars, clauseVars, mamdaniVars,
                   constructVars, generatorVars, groupVars>>

\* sigma = __calculate_sigma(first_mean, second_mean, max_value), then
\* gaussian(mean, sigma, max_value)(value) for mean one of the two means
CallGaussian ==
    /\ \E first_mean \in ShapePoints, second_mean \in ShapePoints,
          max_value \in MaxValues :
          /\ RLess(first_mean, second_mean)
          /\ \E mean \in {first_mean, second_mean},
                value \in {first_mean, Midpoint(first_mean, second_mean),
                           second_mean} :
                shaped' = ShapeCalled(
                             gaussian(mean,
                                      calculate_sigma(first_mean, second_mean,
                                                      max_value),
                                      max_value),
                             value, first_mean, second_mean)
    /\ UNCHANGED <<algebraVars, termVars, fuzzyVars, clauseVars, mamdaniVars,
                   constructVars, generatorVars, groupVars>>

NextShape == CallTriangular \/ CallTrapezoidal \/ CallGaussian

SpecShape == InitShape /\ [][NextShape]_vars

\* -------------------------------------------------------- grouping driver
Modes == {"equal", "default", "progressive", "full", "bogus"}
MfTypes == {"gaussian", "triangular", "trapezoidal", "sigmoid", "bogus"}
FuzzySetTypes == {"t1", "it2", "bogus"}
NMfs == 1..MaxN

InitGroup ==
    /\ AlgebraIdle /\ TermsIdle /\ FuzzyIdle /\ ClauseIdle /\ MamdaniIdle
    /\ ConstructIdle /\ GeneratorIdle /\ ShapeIdle /\ GroupIdle

\* create_gausses_t1 / create_triangular_t1 / create_trapezoidal_t1 and
\* their it2 counterparts, called with n_mfs and mode
CreateMembershipFunctions ==
    /\ \E n_mfs \in NMfs, mode \in Modes,
          fn \in {"create_gausses_t1", "create_triangular_t1",
                  "create_trapezoidal_t1", "create_gausses_it2",
                  "create_triangular_it2", "create_trapezoidal_it2"} :
          grouped' =
             [fn |-> fn, mf_type |-> "None", n_mfs |-> n_mfs,
              fuzzy_set_type |-> "None", mode |-> mode,
              out |-> CASE fn = "create_gausses_t1" -> create_gausses_t1(n_mfs, mode)
                        [] fn = "create_triangular_t1" ->
                              create_triangular_t1(n_mfs, mode)
                        [] fn = "create_trapezoidal_t1" ->
                              create_trapezoidal_t1(n_mfs, mode)
                        [] fn = "create_gausses_it2" ->
                              create_gausses_it2(n_mfs, mode, "center")
                        [] fn = "create_triangular_it2" ->
                              create_triangular_it2(n_mfs, mode)
                        [] fn = "create_trapezoidal_it2" ->
                              create_trapezoidal_it2(n_mfs, mode)]
    /\ UNCHANGED <<algebraVars, termVars, fuzzyVars, clauseVars, mamdaniVars,
                   constructVars, generatorVars, shapeVars>>

\* create_set_of_variables(names, mf_type=, n_mfs=, fuzzy_set_type=, mode=)
CreateSetOfVariables ==
    /\ \E names \in 1..2, mf_type \in MfTypes, n_mfs \in NMfs,
          fuzzy_set_type \in FuzzySetTypes, mode \in Modes :
          grouped' =
             [fn |-> "create_set_of_variables", mf_type |-> mf_type,
              n_mfs |-> n_mfs, fuzzy_set_type |-> fuzzy_set_type, mode |-> mode,
              out |-> create_set_of_variables(names, mf_type, n_mfs,
                                              fuzzy_set_type, mode)]
    /\ UNCHANGED <<algebraVars, termVars, fuzzyVars, clauseVars, mamdaniVars,
                   constructVars, generatorVars, shapeVars>>

NextGroup == CreateMembershipFunctions \/ CreateSetOfVariables

SpecGroup == InitGroup /\ [][NextGroup]_vars

\* ------------------------------------------------------- algebra: claims
SameShape(x, y) == x.iter = y.iter /\ Len(x.v) = Len(y.v)
Called == call.op # "None"
IsScalar(x) == ~x.iter
BinaryOp(alg, op, x, y) ==
    CASE op = "t_norm" -> t_norm(alg, x, y)
      [] op = "s_norm" -> s_norm(alg, x, y)
      [] op = "implication" -> implication(alg, x, y)

\* C2: for scalars a, b of [0,1] GodelAlgebra returns t_norm = min(a,b),
\* s_norm = max(a,b), implication = max(1-a,b) and negation = 1-a, and on
\* equal-length sequences the same results element by element.
C2_GodelLaws ==
    (Called /\ call.alg = "GodelAlgebra") =>
        /\ call.op = "negation" =>
              /\ call.out.exc = "None"
              /\ SameShape(call.out.val, a)
              /\ \A i \in 1..Len(a.v) : call.out.val.v[i] = Scale - a.v[i]
        /\ (call.op \in BinaryOps /\ SameShape(a, b)) =>
              /\ call.out.exc = "None"
              /\ SameShape(call.out.val, a)
              /\ \A i \in 1..Len(a.v) :
                    call.out.val.v[i] =
                       CASE call.op = "t_norm" -> Min(a.v[i], b.v[i])
                         [] call.op = "s_norm" -> Max(a.v[i], b.v[i])
                         [] call.op = "implication" -> Max(Scale - a.v[i], b.v[i])

\* a Goedel implication on two sequences of length 2 whose result takes
\* 1 - a at one position and b at the other
C2_Witness ==
    /\ call.alg = "GodelAlgebra" /\ call.op = "implication"
    /\ a.iter /\ b.iter /\ Len(a.v) = 2 /\ Len(b.v) = 2
    /\ call.out.exc = "None"
    /\ call.out.val.v[1] = Scale - a.v[1] /\ call.out.val.v[1] > b.v[1]
    /\ call.out.val.v[2] = b.v[2] /\ call.out.val.v[2] > Scale - a.v[2]

\* C3: for scalars a, b of [0,1] LukasiewiczAlgebra returns
\* t_norm = max(0, a+b-1), s_norm = min(1, a+b),
\* implication = min(1, 1-a+b) and negation = 1-a.
C3_LukasiewiczLaws ==
    (Called /\ call.alg = "LukasiewiczAlgebra" /\ IsScalar(a)) =>
        /\ call.op = "negation" =>
              call.out = Returned(Scalar(Scale - a.v[1]))
        /\ (call.op \in BinaryOps /\ IsScalar(b)) =>
              call.out = Returned(Scalar(
                  CASE call.op = "t_norm" -> Max(0, a.v[1] + b.v[1] - Scale)
                    [] call.op = "s_norm" -> Min(Scale, a.v[1] + b.v[1])
                    [] call.op = "implication" -> Min(Scale, Scale - a.v[1] + b.v[1])))

\* a Lukasiewicz t_norm of two positive scalars whose sum is below 1: the
\* result is clamped to 0
C3_Witness ==
    /\ call.alg = "LukasiewiczAlgebra" /\ call.op = "t_norm"
    /\ IsScalar(a) /\ IsScalar(b)
    /\ a.v[1] > 0 /\ b.v[1] > 0 /\ a.v[1] + b.v[1] < Scale
    /\ call.out = Returned(Scalar(0))

\* C4: t_norm and s_norm of both algebras are commutative and associative
\* on [0,1]: op(a,b) = op(b,a) and op(op(a,b),c) = op(a,op(b,c)).
C4_CommutativeAssociative ==
    (call.op \in {"t_norm", "s_norm"} /\ IsScalar(a) /\ IsScalar(b) /\ IsScalar(c)) =>
        /\ call.out.exc = "None"
        /\ BinaryOp(call.alg, call.op, b, a) = call.out
        /\ BinaryOp(call.alg, call.op, call.out.val, c)
             = BinaryOp(call.alg, call.op, a, BinaryOp(call.alg, call.op, b, c).val)

\* a Lukasiewicz s_norm of three pairwise different scalars strictly
\* between 0 and 1 whose fold reaches the clamp at 1
C4_Witness ==
    /\ call.alg = "LukasiewiczAlgebra" /\ call.op = "s_norm"
    /\ IsScalar(a) /\ IsScalar(b) /\ IsScalar(c)
    /\ a.v[1] # b.v[1] /\ b.v[1] # c.v[1] /\ a.v[1] # c.v[1]
    /\ {a.v[1], b.v[1], c.v[1]} \subseteq 1..(Scale - 1)
    /\ call.out.exc = "None" /\ call.out.val.v[1] < Scale
    /\ call.out.val.v[1] + c.v[1] > Scale

\* C5: a binary operator raises the dimension error naming both sizes
\* whenever the first-dimension sizes of its operands differ (a scalar has
\* size 1), without evaluating the wrapped operator; with equal sizes the
\* validation raises nothing and the operator is evaluated.
C5_DimensionError ==
    call.op \in BinaryOps =>
        LET size_a == IF a.iter THEN Len(a.v) ELSE 1
            size_b == IF b.iter THEN Len(b.v) ELSE 1
        IN  /\ size_a # size_b =>
                  /\ call.out.exc = "ValueError"
                  /\ call.out.msg = <<size_a, size_b>>
                  /\ ~call.out.ran
            /\ size_a = size_b =>
                  /\ call.out.exc = "None"
                  /\ call.out.ran

\* a sequence of length 2 against a sequence of length 1: the error names
\* 2 and 1 and the operator was not evaluated
C5_Witness ==
    /\ call.op = "implication"
    /\ a.iter /\ b.iter /\ Len(a.v) = 2 /\ Len(b.v) = 1
    /\ call.out.exc = "ValueError" /\ call.out.msg = <<2, 1>> /\ ~call.out.ran

\* C6 as stated: a binary operator called with one scalar and one sequence
\* operand of any length does not raise, the scalar being broadcast.
C6_ScalarBroadcastNeverRaises ==
    (call.op \in BinaryOps /\ a.iter # b.iter) => call.out.exc = "None"

\* C6 amended: with one scalar and one sequence operand the operator returns
\* only when the sequence has length 1 (the result is the length-1 sequence
\* of the operator applied to the two numbers); for every other length it
\* raises the dimension error naming 1 and that length.
C6_ScalarAgainstSequence ==
    (call.op \in BinaryOps /\ a.iter # b.iter) =>
        LET seq == IF a.iter THEN a ELSE b
        IN  IF Len(seq.v) = 1
            THEN /\ call.out.exc = "None"
                 /\ call.out.val.iter /\ Len(call.out.val.v) = 1
                 /\ Scalar(call.out.val.v[1])
                      = BinaryOp(call.alg, call.op, Scalar(a.v[1]), Scalar(b.v[1])).val
            ELSE /\ call.out.exc = "ValueError"
                 /\ call.out.msg = <<Size(a), Size(b)>>
                 /\ 1 \in {call.out.msg[1], call.out.msg[2]}

\* t_norm of a scalar and a sequence of length 2 raised the dimension error
C6_Witness ==
    /\ call.op = "t_norm" /\ ~a.iter /\ b.iter /\ Len(b.v) = 2
    /\ call.out.exc = "ValueError" /\ call.out.msg = <<1, 2>>

\* C26: each operator of both algebras, applied to interval type-2 degrees
\* given as pairs (lower, upper) with lower <= upper, returns a pair with
\* lower <= upper.
IntervalDegree(x) == x.iter /\ Len(x.v) = 2 /\ x.v[1] <= x.v[2]
C26_IntervalDegreesStayOrdered ==
    (/\ call.op # "None"
     /\ IntervalDegree(a)
     /\ (call.op # "negation" => IntervalDegree(b))) =>
        call.out.exc = "None" /\ IntervalDegree(call.out.val)

\* C27: for a, b in [0,1] (scalars, or sequences of such degrees) every
\* operator of both algebras that returns, returns values in [0,1].
InUnitInterval(x) == \A i \in 1..Len(x.v) : 0 <= x.v[i] /\ x.v[i] <= Scale
C27_OperatorsStayInUnitInterval ==
    (/\ call.op # "None" /\ call.out.exc = "None"
     /\ InUnitInterval(a) /\ InUnitInterval(b)) =>
        InUnitInterval(call.out.val)

\* a Lukasiewicz s_norm of two scalars whose sum is above 1, or a
\* Lukasiewicz implication with a below b: both clamped to 1
C27_Witness ==
    /\ call.alg = "LukasiewiczAlgebra" /\ call.out.exc = "None"
    /\ ~a.iter /\ ~b.iter
    /\ \/ call.op = "s_norm" /\ a.v[1] + b.v[1] > Scale /\ call.out.val = Scalar(Scale)
       \/ call.op = "implication" /\ b.v[1] > a.v[1] /\ call.out.val = Scalar(Scale)

\* the firing of a Term over an assignment of degrees in [0,1], where it
\* returns, lies in [0,1]
C27_TermFiringInUnitInterval ==
    (lastFire.term # 0 /\ lastFire.out.exc = "None") =>
        InUnitInterval(lastFire.out.val)

\* ---------------------------------------------------------- Term: claims
\* the structural recursion over an expression: a leaf is the entry of its
\* clause, a & / | node folds its two operands, evaluated against the same
\* dict_, with the t_norm / s_norm of the algebra
RECURSIVE Eval(_, _)
Eval(e, dict_) ==
    IF e.op = "leaf" THEN Returned(dict_[e.clause])
    ELSE IF e.op = "and"
         THEN t_norm(e.alg, Eval(e.kids[1], dict_).val, Eval(e.kids[2], dict_).val)
         ELSE s_norm(e.alg, Eval(e.kids[1], dict_).val, Eval(e.kids[2], dict_).val)

Fired == lastFire.term # 0
FiredExpr == built[lastFire.term].expr
IsLeafOf(e, clause) == e.op = "leaf" /\ e.clause = clause

\* C1: for a Term built from leaf Terms with & and |, and an assignment d
\* with an entry for each of its Clauses, term.fire(d) is the structural
\* recursion over the expression; in particular under Goedel algebra
\* (Term(C1) & Term(C2)).fire(d) is the smaller and (Term(C1) | Term(C2))
\* .fire(d) the larger of d[C1] and d[C2].
C1_FireIsStructuralRecursion ==
    Fired =>
        /\ lastFire.out = Eval(FiredExpr, lastFire.dict_)
        /\ lastFire.out.exc = "None"
        /\ (/\ FiredExpr.op \in {"and", "or"}
            /\ FiredExpr.alg = "GodelAlgebra"
            /\ IsLeafOf(FiredExpr.kids[1], "C1")
            /\ IsLeafOf(FiredExpr.kids[2], "C2")) =>
               lastFire.out.val.v[1] =
                  IF FiredExpr.op = "and"
                  THEN Min(lastFire.dict_["C1"].v[1], lastFire.dict_["C2"].v[1])
                  ELSE Max(lastFire.dict_["C1"].v[1], lastFire.dict_["C2"].v[1])

\* (Term(C1) & Term(C2)).fire(d) under Goedel algebra with d[C1] < d[C2],
\* both strictly between 0 and 1, has returned d[C1]
C1_Witness ==
    /\ Fired
    /\ FiredExpr.op = "and" /\ FiredExpr.alg = "GodelAlgebra"
    /\ IsLeafOf(FiredExpr.kids[1], "C1") /\ IsLeafOf(FiredExpr.kids[2], "C2")
    /\ 0 < lastFire.dict_["C1"].v[1]
    /\ lastFire.dict_["C1"].v[1] < lastFire.dict_["C2"].v[1]
    /\ lastFire.dict_["C2"].v[1] < Scale
    /\ lastFire.out = Returned(lastFire.dict_["C1"])

\* the Clauses that occur in an expression
RECURSIVE ClausesOf(_)
ClausesOf(e) ==
    IF e.op = "leaf" THEN {e.clause}
    ELSE ClausesOf(e.kids[1]) \cup ClausesOf(e.kids[2])

\* C28: term.fire(d) depends only on the entries of d for the Clauses of
\* the term's expression: every assignment that agrees with d on those
\* Clauses gives the firing that fire(d) returned, d itself included when
\* the term is evaluated again, now or after later operations; and an
\* evaluation leaves every Term as it was.
C28_FireDependsOnlyOnItsClauses ==
    [][/\ lastFire' # lastFire => (terms' = terms /\ built' = built)
       /\ lastFire'.term # 0 =>
             \A d \in Assignments :
                 (\A clause \in ClausesOf(built'[lastFire'.term].expr) :
                     d[clause] = lastFire'.dict_[clause]) =>
                        fire(terms', lastFire'.term, d) = lastFire'.out]_vars

\* a composite Term over the Clause C1 alone was evaluated on an assignment
\* that gives C2 another degree than C1
C28_Witness ==
    /\ Fired /\ FiredExpr.op # "leaf" /\ ClausesOf(FiredExpr) = {"C1"}
    /\ lastFire.dict_["C2"] # lastFire.dict_["C1"]
    /\ lastFire.out = Returned(lastFire.dict_["C1"])

\* C10: all Terms of one expression tree share a single algebra: the Term
\* produced by a & b or a | b has the same algebra as each of its operands,
\* and so has every Term it was built from.
C10_OneAlgebraPerTree ==
    \A t \in TermIds :
        /\ terms[t].fire.kind \in {"apply_dict_t_norm", "apply_dict_s_norm"} =>
              /\ terms[t].algebra = terms[terms[t].fire.self].algebra
              /\ terms[t].algebra = terms[terms[t].fire.other].algebra
        /\ \A u \in built[t].parts : terms[u].algebra = terms[t].algebra

\* ------------------------------------------------------ fuzzy set: claims
Abs(k) == IF k < 0 THEN 0 - k ELSE k

Looked == clauseObj.exc = "None" /\ got.out.exc # "NotCalled"

\* the integer nearest to num / den, the even one when two are as near
Nearest(num, den) ==
    CHOOSE k \in 0..(num + 1) :
        /\ 2 * Abs(k * den - num) <= den
        /\ (2 * Abs(k * den - num) = den => k % 2 = 0)

DomainPoints(domain) ==
    {x \in domain.min..domain.max :
        x < domain.max /\ (x - domain.min) % domain.precision = 0}

\* C8: over a Clause of the identity membership function the table has one
\* entry per point of the Domain, get_value(x) returns at every point x of
\* the Domain, and whatever get_value(x) returns differs from x by at most
\* precision / 2.
C8_IdentityWithinHalfPrecision ==
    (clauseObj.exc = "None" /\ clauseObj.fuzzy_set = Type1FuzzySet_init("identity")) =>
        LET domain == clauseObj.linguistic_variable.domain
            xs == got.x.v
        IN  /\ Len(clauseObj.values.rows[1]) = Cardinality(DomainPoints(domain))
            /\ got.out.exc # "NotCalled" =>
                  /\ (\A i \in 1..Len(xs) : xs[i] \in DomainPoints(domain))
                        => got.out.exc = "None"
                  /\ got.out.exc = "None" =>
                        \A i \in 1..Len(xs) :
                            2 * Abs(got.out.val.rows[1][i] - xs[i]) <= domain.precision

\* an identity Clause looked up half-way between two points: the value
\* returned is precision / 2 away from x
C8_Witness ==
    /\ Looked /\ clauseObj.fuzzy_set = Type1FuzzySet_init("identity")
    /\ got.out.exc = "None" /\ ~got.x.iter
    /\ 2 * Abs(got.out.val.rows[1][1] - got.x.v[1])
          = clauseObj.linguistic_variable.domain.precision

\* C25: for every x with domain.min <= x <= domain.max (every element of a
\* sequence x), get_value(x) succeeds: the index round((x - min) /
\* precision) is at least 0 and below the number of entries of the table.
C25_GetValueSucceedsWithinDomain ==
    Looked =>
        LET domain == clauseObj.linguistic_variable.domain
            xs == got.x.v
            index == Clause_find_index(clauseObj, got.x).index
        IN  (\A i \in 1..Len(xs) : domain.min <= xs[i] /\ xs[i] <= domain.max) =>
                /\ got.out.exc = "None"
                /\ \A i \in 1..Len(xs) :
                      index[i] >= 0 /\ index[i] < Len(clauseObj.values.rows[1])

\* ------------------------------------------- Term with fire assigned: claims
IsComposite(t) == built[t].expr.op \in {"and", "or"}

\* C11: once a composite Term exists, no later operation on another Term
\* (creating Terms, & and |, evaluating, assigning another Term's fire)
\* changes what its fire(d) returns for any assignment d, and a step that
\* creates a Term leaves the name, algebra and firing function of every
\* existing Term as they were.
C11_CompositeNeverChanges ==
    [][/\ \A t \in TermIds :
             (IsComposite(t) /\ terms'[t] = terms[t]) =>
                \A d \in Assignments : fire(terms', t, d) = fire(terms, t, d)
       /\ Len(terms') > Len(terms) =>
             \A t \in TermIds : terms'[t] = terms[t]]_vars

\* C12: every Term has an acyclic structure: a composite firing function
\* only references Terms that existed before the Term that holds it, and
\* fire(d) comes to an end on every Term without exhausting the stack.
C12_AcyclicAndTerminates ==
    \A t \in TermIds :
        /\ terms[t].fire.kind \in {"apply_dict_t_norm", "apply_dict_s_norm"} =>
              terms[t].fire.self < t /\ terms[t].fire.other < t
        /\ \A d \in Assignments : fire(terms, t, d).exc # "RecursionError"

\* ------------------------------------------------- Clause setters: claims
\* the points of the Domain in order: the k-th is min + (k - 1) * precision
PointsBelowMax(domain) ==
    Cardinality({k \in 0..(domain.max - domain.min) :
                    domain.min + k * domain.precision < domain.max})
PointAt(domain, k) == domain.min + (k - 1) * domain.precision

\* the table a fuzzy set gives over a Domain, entry by entry
IsTableOf(table, fuzzy_set, domain) ==
    /\ \A r \in 1..Len(table.rows) : Len(table.rows[r]) = PointsBelowMax(domain)
    /\ IF fuzzy_set.type = "Type1FuzzySet"
       THEN /\ Len(table.rows) = 1
            /\ \A k \in 1..PointsBelowMax(domain) :
                  table.rows[1][k] =
                     membership_function(fuzzy_set.membership_function, PointAt(domain, k))
       ELSE /\ Len(table.rows) = 2
            /\ \A k \in 1..PointsBelowMax(domain) :
                  /\ table.rows[1][k] =
                        membership_function(fuzzy_set.lower_membership_function,
                                            PointAt(domain, k))
                  /\ table.rows[2][k] =
                        membership_function(fuzzy_set.upper_membership_function,
                                            PointAt(domain, k))

\* a step that is a call of the values setter
IsSetValuesStep == setOut'.op = "values" /\ got' = got

\* C13: the table is computed once, at construction, as the fuzzy set at
\* every point of the Domain; afterwards a step changes it only if it is a
\* successful call of the values setter, and then the table is the array
\* assigned; get_value and the setters of fuzzy_set, linguistic_variable and
\* gradation_adjective leave it as it is, and the fuzzy set is never called
\* again.
C13_TableComputedOnceReplacedWholesale ==
    [][/\ (clauseObj.exc = "NotConstructed" /\ clauseObj'.exc = "None") =>
             /\ IsTableOf(clauseObj'.values, clauseObj'.fuzzy_set,
                          clauseObj'.linguistic_variable.domain)
             /\ fsCalls' = 1
       /\ clauseObj.exc = "None" =>
             /\ fsCalls' = fsCalls
             /\ clauseObj'.values # clauseObj.values =>
                   /\ IsSetValuesStep
                   /\ setOut'.exc = "None"
                   /\ clauseObj'.values = setOut'.values.array]_vars

\* the fuzzy set of a Clause was replaced by another one, the table is not
\* what the new fuzzy set gives over the Domain, and a lookup was made
C13_Witness ==
    /\ clauseObj.exc = "None"
    /\ setOut.op = "fuzzy_set" /\ setOut.exc = "None"
    /\ ~IsTableOf(clauseObj.values, clauseObj.fuzzy_set,
                  clauseObj.linguistic_variable.domain)
    /\ got.out.exc = "None"

\* the number of domain points an array speaks of: the length of its rows
PointsOf(arr) == Len(arr.rows[1])

\* C14: a call of the values setter with an array for a different number
\* of domain points than the current table raises and leaves the Clause as
\* it was, and so does a call with something that is not iterable.
C14_IncompatibleLengthRaises ==
    [][IsSetValuesStep =>
          /\ ~setOut'.values.iterable =>
                setOut'.exc # "None" /\ clauseObj' = clauseObj
          /\ (/\ setOut'.values.iterable
              /\ PointsOf(setOut'.values.array) # PointsOf(clauseObj.values)) =>
                setOut'.exc # "None" /\ clauseObj' = clauseObj]_vars

\* the shape of an array: its number of rows and their length
ShapeOf(arr) == <<Len(arr.rows), Len(arr.rows[1])>>

\* C15: whatever is assigned, the table keeps the shape family it was
\* computed with (one row of one entry per domain point for a type-1
\* Clause, a lower and an upper row for an interval type-2 Clause): no step
\* on a constructed Clause changes the shape of the table.
C15_ShapeFamilyKept ==
    [][clauseObj.exc = "None" => ShapeOf(clauseObj'.values) = ShapeOf(clauseObj.values)]_vars

\* ----------------------------------------------- MamdaniConsequent: claims
\* the rule firing of the last call has the type of the consequent's Clause:
\* a float for a type-1 Clause, a pair for an interval type-2 Clause
FiringMatchesClause ==
    \/ /\ consequent.clause.fuzzy_set.type = "Type1FuzzySet"
       /\ output.rule_firing.kind = "float"
    \/ /\ consequent.clause.fuzzy_set.type = "IntervalType2FuzzySet"
       /\ output.rule_firing.kind = "iterable"
       /\ Len(output.rule_firing.v) = 2

\* the level that cuts row r
LevelOfRow(r) ==
    IF output.rule_firing.kind = "float" THEN output.rule_firing.v[1]
    ELSE output.rule_firing.v[r]

\* C16: output(f), for a float f on a type-1 Clause and a pair f on an
\* interval type-2 Clause, returns a Clause like the consequent's whose
\* table has the shape of the consequent's table and holds, entry by entry,
\* the smaller of the entry and f (the lower row against f's first number,
\* the upper row against its second); the consequent's own Clause keeps its
\* table; cut_clause is None until output is called and is the returned
\* Clause after every call that returns.
C16_OutputIsMinimumCut ==
    consequent.exc = "None" =>
        LET table == consequent.clause.values
            cut == output.clause.values
        IN  /\ IsTableOf(table, consequent.clause.fuzzy_set,
                         consequent.clause.linguistic_variable.domain)
            /\ output.exc = "NotCalled" => consequent.cut_clause = NoClause
            /\ output.exc = "None" => consequent.cut_clause = output.clause
            /\ (output.exc # "NotCalled" /\ FiringMatchesClause) =>
                  /\ output.exc = "None"
                  /\ output.clause = [consequent.clause EXCEPT !.values = cut]
                  /\ ShapeOf(cut) = ShapeOf(table)
                  /\ \A r \in 1..Len(table.rows) :
                        \A i \in 1..Len(table.rows[r]) :
                           cut.rows[r][i] =
                              IF table.rows[r][i] <= LevelOfRow(r)
                              THEN table.rows[r][i] ELSE LevelOfRow(r)

\* an interval type-2 consequent cut by a pair with a lower level below the
\* upper one: the returned lower row holds an entry cut to the lower level
\* and the upper row an entry cut to the upper level
C16_Witness ==
    /\ consequent.exc = "None" /\ output.exc = "None"
    /\ consequent.clause.fuzzy_set.type = "IntervalType2FuzzySet"
    /\ output.rule_firing.kind = "iterable"
    /\ output.rule_firing.v[1] < output.rule_firing.v[2]
    /\ \E i \in 1..Len(consequent.clause.values.rows[1]) :
          /\ consequent.clause.values.rows[1][i] > output.rule_firing.v[1]
          /\ output.clause.values.rows[1][i] = output.rule_firing.v[1]
          /\ consequent.clause.values.rows[2][i] > output.rule_firing.v[2]
          /\ output.clause.values.rows[2][i] = output.rule_firing.v[2]

\* C29: output never modifies the Clause given to the constructor and cuts
\* are not cumulative: whatever calls came before and whether they returned
\* or raised, a call of output leaves consequent.clause, with the table of
\* its construction, as it was; a call that returns, returns the Clause
\* whose table is the minimum of that table and the rule firing of this
\* call; a call that raises leaves cut_clause as it was before the call.
C29_CutsLeaveTheClauseAndDoNotAccumulate ==
    [][consequent.exc = "None" =>
          /\ consequent'.clause = consequent.clause
          /\ IsTableOf(consequent'.clause.values, consequent'.clause.fuzzy_set,
                       consequent'.clause.linguistic_variable.domain)
          /\ output'.exc = "None" =>
                /\ output'.clause.values =
                      Mamdani_np_minimum(consequent.clause.values,
                                         output'.rule_firing).val
                /\ consequent'.cut_clause = output'.clause
          /\ output'.exc # "None" =>
                consequent'.cut_clause = consequent.cut_clause]_vars

\* ---------------------------------------------------- construction: claims
\* C17: a Type1FuzzySet or IntervalType2FuzzySet constructed with a
\* membership-function argument that is not callable raises a TypeError and
\* produces no object.
C17_NonCallableRaisesTypeError ==
    /\ (fset.type = "Type1FuzzySet" /\ ~callable(fset.membership_function)) =>
          fset.exc = "TypeError"
    /\ (/\ fset.type = "IntervalType2FuzzySet"
        /\ \/ ~callable(fset.lower_membership_function)
           \/ ~callable(fset.upper_membership_function)) =>
          fset.exc = "TypeError"

\* C18: a Term constructed with an algebra that is not an Algebra or a
\* clause that is not a Clause (None, the default, aside), a Clause with
\* a variable that is not a LinguisticVariable or a fuzzy set that is not a
\* FuzzySet, and a LinguisticVariable with a domain that is not a Domain
\* raise, and no object is returned.
C18_WrongCollaboratorRaises ==
    /\ (made.class = "Term" /\ made.algebra \notin Algebras) => made.exc # "None"
    /\ (made.class = "Term" /\ made.clause \notin Clauses \cup {"None"}) =>
          made.exc # "None"
    /\ (/\ made.class = "Clause"
        /\ \/ ~isinstance_LinguisticVariable(made.linguistic_variable)
           \/ ~isinstance_FuzzySet(made.fuzzy_set)) => made.exc # "None"
    /\ (made.class = "LinguisticVariable" /\ made.domain.type # "Domain") =>
          made.exc # "None"

\* -------------------------------------------------------- generators: claims
\* C19: every batch generator called with a count n returns exactly n
\* membership functions: the equal-Gaussian, even and full triangular and
\* trapezoidal generators for n >= 2, the progressive-Gaussian generator for
\* n >= 3, which raises for n < 3.
C19_GeneratorsReturnExactlyN ==
    /\ (/\ generated.fn \in {"generate_equal_gausses", "generate_even_triangulars",
                            "generate_even_trapezoidals",
                            "generate_full_triangulars",
                            "generate_full_trapezoidals"}
        /\ generated.n >= 2) =>
          generated.out.exc = "None" /\ Len(generated.out.fns) = generated.n
    /\ generated.fn = "generate_progressive_gausses" =>
          IF generated.n >= 3
          THEN generated.out.exc = "None" /\ Len(generated.out.fns) = generated.n
          ELSE generated.out.exc # "None"

\* C20: generate_equal_gausses without mid_ev puts the first mean at start,
\* the last at end and consecutive means (end - start)/(n - 1) apart; with
\* mid_ev consecutive means are 2*mid_ev/(n - 1) apart; all n Gaussians
\* have the same sigma.
MeanOf(i) == generated.out.fns[i].params[1]
C20_EqualGaussesSpanTheDomain ==
    (generated.fn = "generate_equal_gausses" /\ generated.n >= 2) =>
        LET n == generated.n
            width == IF generated.mid_ev = NoneArg
                     THEN RSub(generated.end, generated.start)
                     ELSE RMul(Num(2), generated.mid_ev)
        IN  /\ generated.out.exc = "None"
            /\ \A i \in 1..(n - 1) :
                  RSub(MeanOf(i + 1), MeanOf(i)) = RDiv(width, Num(n - 1))
            /\ \A i \in 1..n :
                  generated.out.fns[i].sigmas = generated.out.fns[1].sigmas
            /\ generated.mid_ev = NoneArg =>
                  MeanOf(1) = generated.start /\ MeanOf(n) = generated.end

\* ---------------------------------------------- membership functions: claims
\* C21: for every max_value, with the sigma computed for two means m1 < m2
\* the Gaussians of height max_value centred at m1 and at m2 both have the
\* value max_value / 2 at the midpoint of m1 and m2, and the sigma kept is
\* the non-negative root.
C21_SigmaCrossesAtHalfHeight ==
    (/\ shaped.called
     /\ shaped.mf.kind = "gaussian"
     /\ shaped.value = Midpoint(shaped.first_mean, shaped.second_mean)) =>
        /\ shaped.out = RDiv(shaped.mf.params[2], Num(2))
        /\ shaped.mf.sigmas[1].half[1] >= 0

\* C22: for max_value > 0 and l_end < center < r_end (l_end < l_center <=
\* r_center < r_end), triangular and trapezoidal return a value in
\* [0, max_value]: 0 at and outside the ends, max_value at the centre (on
\* the whole plateau of the trapezoid), and the linear ramp in between.
Ramp(from, to, value, max_value) ==
    RMul(max_value, RDiv(RSub(value, from), RSub(to, from)))
C22_ShapesArePiecewiseLinear ==
    /\ (shaped.called /\ shaped.mf.kind = "triangular") =>
          LET l_end == shaped.mf.params[1]
              center == shaped.mf.params[2]
              r_end == shaped.mf.params[3]
              max_value == shaped.mf.params[4]
              x == shaped.value
          IN  shaped.out =
                 IF RLeq(x, l_end) \/ RLeq(r_end, x) THEN Num(0)
                 ELSE IF RLeq(x, center) THEN Ramp(l_end, center, x, max_value)
                 ELSE Ramp(r_end, center, x, max_value)
    /\ (shaped.called /\ shaped.mf.kind = "trapezoidal") =>
          LET l_end == shaped.mf.params[1]
              l_center == shaped.mf.params[2]
              r_center == shaped.mf.params[3]
              r_end == shaped.mf.params[4]
              max_value == shaped.mf.params[5]
              x == shaped.value
          IN  shaped.out =
                 IF RLeq(x, l_end) \/ RLeq(r_end, x) THEN Num(0)
                 ELSE IF RLess(x, l_center) THEN Ramp(l_end, l_center, x, max_value)
                 ELSE IF RLeq(x, r_center) THEN max_value
                 ELSE Ramp(r_end, r_center, x, max_value)

\* ---------------------------------------------------- partitions: claims
\* C23: generate_full_trapezoidals(n, start, end) with n >= 2 returns, in
\* order, a trapezoid, n - 2 triangles and a trapezoid; the first shape
\* starts 0.001 before start and the last ends 0.001 after end, so that the
\* first function is max_value at start and the last is max_value at end.
C23_FullTrapezoidalsShape ==
    (generated.fn = "generate_full_trapezoidals" /\ generated.n >= 2) =>
        LET n == generated.n
            fns == generated.out.fns
        IN  /\ generated.out.exc = "None"
            /\ Len(fns) = n
            /\ fns[1].kind = "trapezoidal" /\ fns[n].kind = "trapezoidal"
            /\ \A i \in 2..(n - 1) : fns[i].kind = "triangular"
            /\ fns[1].params[1] = RSub(generated.start, Rat(1, 1000))
            /\ fns[n].params[4] = RAdd(generated.end, Rat(1, 1000))
            /\ mf_call(fns[1], generated.start) = generated.max_value
            /\ mf_call(fns[n], generated.end) = generated.max_value

C23_Witness ==
    /\ generated.fn = "generate_full_trapezoidals"
    /\ generated.n >= 3
    /\ generated.out.exc = "None"
    /\ generated.out.fns[2].kind = "triangular"

\* C30: the partitions built by generate_full_triangulars and
\* generate_full_trapezoidals for n >= 2 cover the domain: every x with
\* start <= x <= end has a membership above 0 in at least one of the
\* returned functions.
\* the points of [start, end] on a grid that holds every end and centre of
\* the returned shapes and the points half way between them
CoverPoints ==
    LET grid == 2 * (generated.n - 1) * (2 * generated.n - 1)
    IN  {RAdd(generated.start,
              RMul(RSub(generated.end, generated.start), Rat(k, grid))) :
            k \in 0..grid}
C30_FullPartitionsCoverTheDomain ==
    (/\ generated.fn \in {"generate_full_triangulars", "generate_full_trapezoidals"}
     /\ generated.n >= 2) =>
        /\ generated.out.exc = "None"
        /\ \A x \in CoverPoints :
              \E i \in 1..Len(generated.out.fns) :
                 RLess(Num(0), mf_call(generated.out.fns[i], x))

\* ------------------------------------------------------- grouping: claims
\* C24: an unsupported configuration string handed to the generation
\* helpers (an unknown mf_type in create_set_of_variables, a mode the
\* create_..._t1 / create_..._it2 function does not know, an unsupported
\* n_mfs) ends in an error whose message names the invalid value, and
\* nothing is returned.
ModesOf(fn) ==
    IF fn \in {"create_gausses_t1", "create_gausses_it2"}
    THEN {"equal", "default", "progressive"}
    ELSE {"equal", "default", "full"}
Names(msg, value) == \E i \in 1..Len(msg) : msg[i] = value
NothingReturned(out) ==
    out.count = 0 /\ out.ling_vars = 0 /\ out.fuzzy_sets = 0 /\ out.clauses = 0
C24_UnsupportedConfigurationNamed ==
    /\ (/\ grouped.fn = "create_set_of_variables"
        /\ grouped.n_mfs \notin {2, 3, 5, 7, 9, 11}) =>
          /\ grouped.out.exc # "None"
          /\ Names(grouped.out.msg, ToString(grouped.n_mfs))
          /\ NothingReturned(grouped.out)
    /\ (/\ grouped.fn = "create_set_of_variables"
        /\ grouped.n_mfs \in {2, 3, 5, 7, 9, 11}
        /\ grouped.fuzzy_set_type \in {"t1", "it2"}
        /\ grouped.mf_type \notin {"gaussian", "triangular", "trapezoidal",
                                   "sigmoid"}) =>
          /\ grouped.out.exc # "None"
          /\ Names(grouped.out.msg, grouped.mf_type)
          /\ NothingReturned(grouped.out)
    /\ (/\ grouped.fn \notin {"None", "create_set_of_variables"}
        /\ grouped.mode \notin ModesOf(grouped.fn)) =>
          /\ grouped.out.exc # "None"
          /\ Names(grouped.out.msg, grouped.mode)
          /\ NothingReturned(grouped.out)

====
